---- MODULE Spec2Model ----
(***************************************************************************)
(* Model of the opencode-momo plugin: the compaction tracker driven by the *)
(* host's event stream, the chat-message injection hook, the ingestion     *)
(* poller, the layered configuration resolver, the privacy filter, the     *)
(* container tags and the tools.                                           *)
(***************************************************************************)
EXTENDS Integers, Sequences, FiniteSets, TLC

(***************************************************************************)
(* Bounds of the model.                                                    *)
(***************************************************************************)
MaxTime == 61000
MaxInflight == 1
MaxOwed == 2
MaxHookCalls == 3
MaxStart == 2
MaxTimeout == 3
MaxPoll == 2
MaxFrags == 5
MaxHashLen == 6
MaxMemories == 2

(***************************************************************************)
(* Program constants.                                                      *)
(***************************************************************************)
COMPACTION_COOLDOWN_MS == 30000

Sessions == {"s1", "s2"}
Deltas == {10000, 21000}
Roles == {"assistant", "user"}

\* the messages of message.updated events: the finished summary of the
\* assistant, and one message failing each test of the handler
Messages ==
  {[role |-> "assistant", summary |-> TRUE, finish |-> TRUE],
   [role |-> "user", summary |-> TRUE, finish |-> TRUE],
   [role |-> "assistant", summary |-> FALSE, finish |-> TRUE],
   [role |-> "assistant", summary |-> TRUE, finish |-> FALSE]}

\* tags handed to the hooks by the plugin (tags.user, tags.project)
PluginTags == [user |-> "opencode-user-tag", project |-> "ocp-project-tag"]

VARIABLES
  momo,            \* TRUE iff the plugin created its backend client
  now,             \* Date.now()
  sessionStates,   \* compaction.ts: Map sessionID -> CompactionSessionState
  inflight,        \* ingestion calls the backend has not answered yet
  emitted,         \* history: per session, the times of the ingestion
                   \* requests since the last session.deleted of that session
  fresh,           \* history: sessions whose entry was created by their
                   \* latest event
  ended,           \* history: sessions whose latest events are a
                   \* session.deleted, or one and the session.compacted
                   \* that created the entry again
  peak,            \* history, kept under SpecPeak only: per session, the
                   \* highest lastCompaction an entry of the session has
                   \* held (<< >> when not kept)
  hist,            \* histories of the events of each session, each kept
                   \* only under the specification that needs it (<< >>
                   \* when not kept): failedAt, dropped, owed, since
  last,            \* history: what the latest step did
  injectedSessions, \* index.ts: sessions that already had context injected
  hooks,           \* the invocations of the chat.message hook
  parts,           \* output.parts of each invocation
  lastChat,        \* history: what the latest chat.message step did
  wPc,             \* waitForIngestion: where the call is
  wStart,          \* waitForIngestion: start
  timeoutMs,       \* waitForIngestion: argument
  pollIntervalMs,  \* waitForIngestion: argument
  wakeAt,          \* the time the pending delay() timer fires
  wResult,         \* the status waitForIngestion returned
  wObserved,       \* history: what the latest status query answered
  wQueryAt,        \* history: the time the latest status query was started
  env,             \* process.env
  directory,       \* TRUE iff loadConfig is given a project directory
  dotFile,         \* <directory>/.momo.jsonc
  plainFile,       \* <directory>/momo.jsonc
  globalFile,      \* <config dir>/momo.jsonc
  config,          \* the outcome of loadConfig
  privText,        \* privacy.ts: the text argument
  privOut,         \* privacy.ts: the call made on privText and its result
  hashInput,       \* tags.ts: the argument of simpleHash
  hashOut,         \* tags.ts: the outcome of simpleHash(hashInput)
  tagArgs,         \* tags.ts: the directory, the overrides and the
                   \* operating system's user name
  tagOut,          \* tags.ts: the outcome of getTagsWithOverrides
  tool,            \* index.ts: the latest tool invocation, the backend calls
                   \* it made and how it ended
  ctxArgs,         \* context.ts: the arguments of formatContextForPrompt
  ctxOut           \* context.ts: the outcome of formatContextForPrompt

evVars == <<sessionStates, inflight, emitted, fresh, ended, peak, hist,
           last>>
chatVars == <<injectedSessions, hooks, parts, lastChat>>
pollVars == <<wPc, wStart, timeoutMs, pollIntervalMs, wakeAt, wResult,
              wObserved, wQueryAt>>
cfgVars == <<env, directory, dotFile, plainFile, globalFile, config>>
privVars == <<privText, privOut>>
hashVars == <<hashInput, hashOut>>
tagVars == <<tagArgs, tagOut>>
ctxVars == <<ctxArgs, ctxOut>>
libVars == <<privVars, hashVars, tagVars, tool, ctxVars>>
vars == <<momo, now, sessionStates, inflight, emitted, fresh, ended, peak,
          hist,
          last,
          injectedSessions, hooks, parts, lastChat,
          wPc, wStart, timeoutMs, pollIntervalMs, wakeAt, wResult,
          wObserved, wQueryAt,
          env, directory, dotFile, plainFile, globalFile, config,
          privText, privOut, hashInput, hashOut, tagArgs, tagOut, tool,
          ctxArgs, ctxOut>>

\* what the steps of each part of the plugin leave alone
EvFrame == UNCHANGED <<chatVars, pollVars, cfgVars, libVars>>
ChatFrame == UNCHANGED <<now, evVars, pollVars, cfgVars, libVars>>
PollFrame == UNCHANGED <<momo, evVars, chatVars, cfgVars, libVars>>
CfgFrame == UNCHANGED <<momo, now, evVars, chatVars, pollVars, libVars>>
PluginFrame == UNCHANGED <<momo, now, evVars, chatVars, pollVars, cfgVars>>
PrivFrame == PluginFrame /\ UNCHANGED <<hashVars, tagVars, tool, ctxVars>>
HashFrame == PluginFrame /\ UNCHANGED <<privVars, tagVars, tool, ctxVars>>
TagFrame == PluginFrame /\ UNCHANGED <<privVars, hashVars, tool, ctxVars>>
CtxFrame == PluginFrame /\ UNCHANGED <<privVars, hashVars, tagVars, tool>>
ToolFrame == UNCHANGED <<now, evVars, chatVars, pollVars, privVars, hashVars,
                         tagVars, ctxVars>>

----------------------------------------------------------------------------
(***************************************************************************)
(* compaction.ts                                                           *)
(***************************************************************************)

\* the state getState creates for an untracked session
NewState == [lastCompaction |-> 0, inProgress |-> FALSE]

HasState(sessionID) == sessionID \in DOMAIN sessionStates

\* the map after getState(sessionID): the entry is created when absent
getState(sessionID) ==
  IF HasState(sessionID)
    THEN sessionStates
    ELSE [t \in DOMAIN sessionStates \cup {sessionID} |->
            IF t = sessionID THEN NewState ELSE sessionStates[t]]

\* (the cooldown compared in seconds)
InCooldownSeconds(t, lastCompaction) == t - lastCompaction < 30

\* the condition under which a pending summary is rate-limited
InCooldown(t, lastCompaction) == t - lastCompaction < COMPACTION_COOLDOWN_MS

\* (the request is filed under the user tag)
IngestRequestUserTag(sessionID, containerTag, t) ==
  [messages |-> <<[role |-> "assistant",
                   content |-> <<"[Session compaction summary for session ",
                                 sessionID, "]">>]>>,
   containerTag |-> PluginTags.user,
   sessionId |-> sessionID,
   memoryType |-> "episode",
   at |-> t,
   awaited |-> TRUE]

\* the request handed to momo.conversations.ingest
IngestRequest(sessionID, containerTag, t) ==
  [messages |-> <<[role |-> "assistant",
                   content |-> <<"[Session compaction summary for session ",
                                 sessionID, "]">>]>>,
   containerTag |-> containerTag,
   sessionId |-> sessionID,
   memoryType |-> "episode",
   at |-> t,
   awaited |-> TRUE]

\* what the entry of a session was before the step (NewState when absent)
PreOf(sessionID) ==
  IF HasState(sessionID) THEN sessionStates[sessionID] ELSE NewState

\* the history of the highest lastCompaction of each session, the entries
\* of the map `states' included
PeakWith(states) ==
  IF peak = << >>
    THEN peak
    ELSE [s \in Sessions |->
            IF s \in DOMAIN states /\ states[s].lastCompaction > peak[s]
              THEN states[s].lastCompaction ELSE peak[s]]

\* a history that is kept gets its new value, one that is not stays << >>
KeptAs(history, value) == IF history = << >> THEN << >> ELSE value

NoTime == 0 - 1

Saturated(n) == IF n > MaxOwed THEN MaxOwed ELSE n

\* the histories after the handler of an event of sessionID; what is one
\* of "compacted", "unmatched" (a finished summary of a session that is
\* not pending), "limited", "emitted", "deleted", "failed" (the call
\* emitted at time t for the present entry failed), "stale" (a call emitted
\* before the latest session.deleted failed)
HistAfter(what, sessionID, t) ==
  [failedAt |->
     KeptAs(hist.failedAt,
            [hist.failedAt EXCEPT ![sessionID] =
               IF what = "failed" THEN t
               ELSE IF what = "deleted" THEN NoTime ELSE @]),
   dropped |->
     KeptAs(hist.dropped,
            [hist.dropped EXCEPT ![sessionID] =
               IF what = "limited" THEN TRUE
               ELSE IF what = "compacted" THEN FALSE ELSE @]),
   owed |->
     KeptAs(hist.owed,
            [hist.owed EXCEPT ![sessionID] =
               IF what = "compacted" THEN Saturated(@ + 1)
               ELSE IF what = "emitted" THEN @ - 1 ELSE @]),
   since |->
     KeptAs(hist.since,
            [hist.since EXCEPT ![sessionID] =
               IF what = "compacted" THEN 0
               ELSE IF what = "emitted" THEN @ + 1 ELSE @])]

Step(op, sessionID, n, handler, backend) ==
  [op |-> op, sid |-> sessionID, had |-> HasState(sessionID),
   pre |-> PreOf(sessionID), before |-> sessionStates, hist |-> hist,
   wasFresh |-> sessionID \in fresh,
   wasEnded |-> sessionID \in ended,
   calls |-> Len(inflight), emitted |-> n, handler |-> handler,
   backend |-> backend]

\* (the error of the awaited call leaves the handler)
IngestCatchRethrow(result) == result

\* try { await ingest } catch { }: how the handler ends for each way the
\* awaited call ends
IngestCatch(result) == "returned"

RemoveAt(seq, i) == SubSeq(seq, 1, i - 1) \o SubSeq(seq, i + 1, Len(seq))

\* (handleCompactionEvent is reached without a client: the session gets
\* its entry)
EventIgnoredTracked(op, sessionID) ==
  /\ EvFrame
  /\ ~momo
  /\ sessionStates' = getState(sessionID)
  /\ last' = Step(op, sessionID, 0, "returned", "none")
  /\ UNCHANGED <<momo, now, inflight, emitted, fresh, ended, peak, hist>>

\* eventHook with no client: returns at once
EventIgnored(op, sessionID) ==
  /\ EvFrame
  /\ ~momo
  /\ last' = Step(op, sessionID, 0, "returned", "none")
  /\ UNCHANGED <<momo, now, sessionStates, inflight, emitted,
                 fresh, ended, peak, hist>>

\* (session.compacted starts the entry of the session anew)
CompactedReset(sessionID) ==
  [t \in DOMAIN sessionStates \cup {sessionID} |->
     IF t = sessionID THEN [NewState EXCEPT !.inProgress = TRUE]
                      ELSE sessionStates[t]]

\* the map after case "session.compacted": getState, then inProgress = true
Compacted(sessionID) ==
  [getState(sessionID) EXCEPT ![sessionID].inProgress = TRUE]

\* event session.compacted
SessionCompacted(sessionID) ==
  \/ EventIgnored("compacted", sessionID)
  \/ /\ momo
     /\ EvFrame
     /\ sessionStates' = Compacted(sessionID)
     /\ fresh' = IF HasState(sessionID) THEN fresh \ {sessionID}
                                        ELSE fresh \cup {sessionID}
     /\ ended' = IF HasState(sessionID) THEN ended \ {sessionID} ELSE ended
     /\ peak' = PeakWith(sessionStates')
     /\ hist' = HistAfter("compacted", sessionID, now)
     /\ last' = Step("compacted", sessionID, 0, "returned", "none")
     /\ UNCHANGED <<momo, now, inflight, emitted>>

\* (the rate-limited branch leaves the compaction pending)
RateLimitedDeferred(states, sessionID) == states

\* (the rate-limited branch starts the entry anew)
RateLimitedReset(states, sessionID) ==
  [states EXCEPT ![sessionID] = NewState]

\* (the rate-limited branch stamps the entry as well)
RateLimitedStamped(states, sessionID) ==
  [states EXCEPT ![sessionID].inProgress = FALSE,
                 ![sessionID].lastCompaction = now]

\* the map after the rate-limited branch: inProgress = false
RateLimited(states, sessionID) ==
  [states EXCEPT ![sessionID].inProgress = FALSE]

\* (the entry is stamped and the compaction stays pending)
StampedStillPending(states, sessionID) ==
  [states EXCEPT ![sessionID].lastCompaction = now]

\* (the entry is written only after the awaited call has ended)
StampedAfterAwait(states, sessionID) == states

\* the map after the two assignments that precede the ingest call:
\* inProgress = false, lastCompaction = now
Stamped(states, sessionID) ==
  [states EXCEPT ![sessionID].inProgress = FALSE,
                 ![sessionID].lastCompaction = now]

\* event message.updated
MessageUpdated(sessionID, role, summary, finish) ==
  \/ EventIgnored("updated", sessionID)
  \/ /\ momo
     /\ EvFrame
     /\ IF role # "assistant" \/ ~summary \/ ~finish
          THEN /\ last' = Step("other", sessionID, 0, "returned", "none")
               /\ UNCHANGED <<sessionStates, inflight, emitted,
                              fresh, ended, peak, hist>>
          ELSE LET states == getState(sessionID)
                   state == states[sessionID]
               IN  /\ fresh' = fresh \ {sessionID}
                   /\ ended' = ended \ {sessionID}
                   /\ IF ~state.inProgress
                        THEN /\ sessionStates' = states
                             /\ hist' = HistAfter("unmatched", sessionID, now)
                             /\ last' = Step("updated", sessionID, 0,
                                             "returned", "none")
                             /\ UNCHANGED <<inflight, emitted>>
                        ELSE IF InCooldown(now, state.lastCompaction)
                        THEN /\ sessionStates' = RateLimited(states, sessionID)
                             /\ hist' = HistAfter("limited", sessionID, now)
                             /\ last' = Step("updated", sessionID, 0,
                                             "returned", "none")
                             /\ UNCHANGED <<inflight, emitted>>
                        ELSE /\ Len(inflight) < MaxInflight
                             /\ sessionStates' = Stamped(states, sessionID)
                             /\ hist' = HistAfter("emitted", sessionID, now)
                             /\ inflight' = Append(inflight,
                                  IngestRequest(sessionID, PluginTags.project, now))
                             /\ emitted' = [emitted EXCEPT
                                  ![sessionID] = Append(@, now)]
                             /\ last' = Step("updated", sessionID, 1,
                                             "suspended", "none")
                   /\ peak' = PeakWith(sessionStates')
     /\ UNCHANGED <<momo, now>>

\* (session.deleted clears the whole map)
DeletedAll(sessionID) == << >>

\* the map after sessionStates.delete(sessionID)
Deleted(sessionID) ==
  [t \in DOMAIN sessionStates \ {sessionID} |-> sessionStates[t]]

\* (the deleted session is forgotten by the chat hook as well)
InjectedAfterDeleteForgotten(sessionID) == injectedSessions \ {sessionID}

\* injectedSessions after session.deleted: the handler deletes from
\* sessionStates only
InjectedAfterDelete(sessionID) == injectedSessions

\* event session.deleted
SessionDeleted(sessionID) ==
  \/ EventIgnored("deleted", sessionID)
  \/ /\ momo
     /\ UNCHANGED <<hooks, parts, lastChat, pollVars, cfgVars, libVars>>
     /\ injectedSessions' = InjectedAfterDelete(sessionID)
     /\ sessionStates' = Deleted(sessionID)
     /\ emitted' = [emitted EXCEPT ![sessionID] = <<>>]
     /\ fresh' = fresh \ {sessionID}
     /\ ended' = ended \cup {sessionID}
     /\ hist' = HistAfter("deleted", sessionID, now)
     /\ last' = Step("deleted", sessionID, 0, "returned", "none")
     /\ UNCHANGED <<momo, now, inflight, peak>>

\* the backend answers an ingestion call: the awaiting handler resumes
IngestResolved(i) ==
  /\ EvFrame
  /\ i \in 1..Len(inflight)
  /\ inflight' = RemoveAt(inflight, i)
  /\ last' = Step("settled", inflight[i].sessionId, 0, IngestCatch("returned"),
                  "ok")
  /\ UNCHANGED <<momo, now, sessionStates, emitted, fresh, ended, peak,
                 hist>>

\* (the catch block takes back what the handler wrote before the call)
AfterCatchRollback(sessionID) ==
  IF HasState(sessionID)
    THEN [sessionStates EXCEPT ![sessionID].inProgress = TRUE,
                               ![sessionID].lastCompaction = 0]
    ELSE sessionStates

\* the map after the empty catch block
AfterCatch(sessionID) == sessionStates

\* the failed call was emitted for the entry the session has had since its
\* latest session.deleted
OfThisEntry(request) ==
  \E k \in 1..Len(emitted[request.sessionId]) :
    emitted[request.sessionId][k] = request.at

\* the ingestion call fails: the catch block swallows the error
IngestRejected(i) ==
  /\ EvFrame
  /\ i \in 1..Len(inflight)
  /\ inflight' = RemoveAt(inflight, i)
  /\ sessionStates' = AfterCatch(inflight[i].sessionId)
  /\ last' = Step("settled", inflight[i].sessionId, 0, IngestCatch("threw"),
                  "failed")
  /\ hist' = HistAfter(IF OfThisEntry(inflight[i]) THEN "failed" ELSE "stale",
                       inflight[i].sessionId, inflight[i].at)
  /\ UNCHANGED <<momo, now, emitted, fresh, ended, peak>>

\* time passes
Tick(d) ==
  /\ EvFrame
  /\ now + d <= MaxTime
  /\ now' = now + d
  /\ last' = [last EXCEPT !.op = "tick", !.emitted = 0,
                          !.before = sessionStates, !.hist = hist,
                          !.calls = Len(inflight),
                          !.handler = "returned", !.backend = "none"]
  /\ UNCHANGED <<momo, sessionStates, inflight, emitted, fresh, ended, peak,
                 hist>>

NoHist == [failedAt |-> << >>, dropped |-> << >>, owed |-> << >>,
           since |-> << >>]

EvQuiet ==
  /\ sessionStates = << >>
  /\ inflight = << >>
  /\ emitted = [s \in Sessions |-> << >>]
  /\ fresh = {}
  /\ ended = {}
  /\ last = [op |-> "init", sid |-> "s1", had |-> FALSE, pre |-> NewState,
             before |-> << >>,
             hist |-> hist,
             wasFresh |-> FALSE, wasEnded |-> FALSE, calls |-> 0, emitted |-> 0, handler |-> "returned",
             backend |-> "none"]

EvIdle == peak = << >> /\ hist = NoHist /\ EvQuiet

EvInit ==
  /\ momo \in BOOLEAN
  /\ now = 0
  /\ EvIdle

\* the initial state with the history of the highest lastCompaction kept
EvInitPeak ==
  /\ momo \in BOOLEAN
  /\ now = 0
  /\ peak = [s \in Sessions |-> 0]
  /\ hist = NoHist
  /\ EvQuiet

EvNext ==
  \/ \E s \in Sessions : SessionCompacted(s)
  \/ \E s \in Sessions, msg \in Messages :
       MessageUpdated(s, msg.role, msg.summary, msg.finish)
  \/ \E s \in Sessions : SessionDeleted(s)
  \/ \E i \in 1..MaxInflight : IngestResolved(i)
  \/ \E i \in 1..MaxInflight : IngestRejected(i)
  \/ \E d \in Deltas : Tick(d)

----------------------------------------------------------------------------
(***************************************************************************)
(* services/context.ts                                                     *)
(*                                                                         *)
(* A text is a sequence of lines and a line a sequence of string           *)
(* fragments; the empty text stands for the empty string.  An optional     *)
(* value is << >> when null or undefined and <<v>> otherwise.              *)
(***************************************************************************)

Truthy(opt) == opt # << >> /\ opt[1] # ""

RECURSIVE JoinSections(_)
\* sections.join("\n\n")
JoinSections(sections) ==
  IF sections = << >> THEN << >>
  ELSE IF Len(sections) = 1 THEN sections[1]
  ELSE sections[1] \o << << >> >> \o JoinSections(Tail(sections))

\* `- ${m.content}${typeLabel}`
MemoryLine(m) ==
  <<"- ", IF m.content = << >> THEN "undefined" ELSE m.content[1]>>
    \o (IF Truthy(m.memoryType) THEN <<" [", m.memoryType[1], "]">> ELSE << >>)

MemoryLines(memories) == [i \in 1..Len(memories) |-> MemoryLine(memories[i])]

\* (the traits are listed last first)
TraitLinesReversed(traits) ==
  [i \in 1..Len(traits) |-> <<"- ", traits[Len(traits) + 1 - i]>>]

\* profile.traits.map((t) => `- ${t}`)
TraitLines(traits) == [i \in 1..Len(traits) |-> <<"- ", traits[i]>>]

\* profile is << >> (null) or <<[summary, traits]>>
formatContextForPrompt(profile, userMemories, projectMemories) ==
  LET s1 == IF profile # << >> /\ Truthy(profile[1].summary)
              THEN << <<<<"## User Profile">>, <<profile[1].summary[1]>>>> >>
              ELSE << >>
      s2 == IF profile # << >> /\ profile[1].traits # << >>
                 /\ Len(profile[1].traits[1]) > 0
              THEN << <<<<"## Known Preferences">>>>
                        \o TraitLines(profile[1].traits[1]) >>
              ELSE << >>
      s3 == IF Len(userMemories) > 0
              THEN << <<<<"## Recent User Context">>>>
                        \o MemoryLines(userMemories) >>
              ELSE << >>
      s4 == IF Len(projectMemories) > 0
              THEN << <<<<"## Project Knowledge">>>>
                        \o MemoryLines(projectMemories) >>
              ELSE << >>
      sections == s1 \o s2 \o s3 \o s4
  IN  IF Len(sections) = 0 THEN << >>
      ELSE << <<"[MOMO MEMORY - Context from previous sessions]">>, << >> >>
             \o JoinSections(sections)
             \o << << >>, <<"[END MOMO MEMORY]">> >>

\* the memory items, lists of them and profiles of the model
MemoryItems ==
  {[content |-> <<"c1">>, memoryType |-> << >>],
   [content |-> <<"c2">>, memoryType |-> <<"fact">>],
   [content |-> <<"c3">>, memoryType |-> <<"">>],
   [content |-> << >>, memoryType |-> <<"episode">>]}

RECURSIVE ListsOf(_, _)
ListsOf(items, n) ==
  IF n = 0 THEN {<< >>}
  ELSE LET shorter == ListsOf(items, n - 1)
       IN  shorter \cup {Append(l, x) : l \in shorter, x \in items}

MemoryLists == ListsOf(MemoryItems, MaxMemories)

ProfileData ==
  {<< >>} \cup
  {<<[summary |-> sm, traits |-> tr]>> :
     sm \in {<< >>, <<"">>, <<"S">>},
     tr \in {<< >>, << << >> >>, << <<"t1", "t2">> >>}}

\* formatContextForPrompt(profile, userMemories, projectMemories) is called
FormatContextForPrompt ==
  /\ CtxFrame
  /\ ~ctxOut.done
  /\ ctxOut' = [done |-> TRUE,
                value |-> formatContextForPrompt(ctxArgs.profile,
                                                 ctxArgs.userMemories,
                                                 ctxArgs.projectMemories)]
  /\ UNCHANGED ctxArgs

NoContext == [done |-> FALSE, value |-> << >>]

CtxIdle ==
  /\ ctxArgs = [profile |-> << >>, userMemories |-> << >>,
                projectMemories |-> << >>]
  /\ ctxOut = NoContext

CtxInit ==
  /\ ctxArgs \in [profile : ProfileData, userMemories : MemoryLists,
                  projectMemories : MemoryLists]
  /\ ctxOut = NoContext

CtxNext == FormatContextForPrompt

----------------------------------------------------------------------------
(***************************************************************************)
(* index.ts: the chat.message hook                                         *)
(***************************************************************************)

HookIds == 1..MaxHookCalls

\* what the backend may answer to momo.profile.compute
Profiles ==
  [narrative : {<< >>, <<"N">>}, staticFacts : {<< >>, <<"f1", "f2">>}]
ProfileOutcomes ==
  {[ok |-> FALSE, value |-> << >>]}
    \cup {[ok |-> TRUE, value |-> <<p>>] : p \in Profiles}

\* what the backend may answer to momo.search.search: a failure, a
\* response without results, a response with two results
SearchOutcomes ==
  {[ok |-> FALSE, value |-> << >>]}
    \cup {[ok |-> TRUE, value |-> r] :
            r \in {<< >>, << <<"m1", "m2">> >>}}

\* (the failure of the profile fetch is not caught)
CatchNullMissing(o) == o

\* .catch(() => null) on the profile fetch
CatchNull(o) == IF o.ok THEN o ELSE [ok |-> TRUE, value |-> << >>]

\* .then((r) => r.results ?? []).catch(() => []) on a search
ResultsOrEmpty(o) ==
  IF o.ok THEN [ok |-> TRUE,
                value |-> IF o.value = << >> THEN << >> ELSE o.value[1]]
          ELSE [ok |-> TRUE, value |-> << >>]

\* the profile argument the hook builds for formatContextForPrompt
ProfileArg(p) ==
  IF p = << >> THEN << >>
  ELSE <<[summary |-> p[1].narrative, traits |-> <<p[1].staticFacts>>]>>

\* memories.map((m) => ({ content: m.content ?? undefined }))
MemoryArgs(ms) ==
  [i \in 1..Len(ms) |-> [content |-> <<ms[i]>>, memoryType |-> << >>]]

ContextText(p, u, m) ==
  formatContextForPrompt(ProfileArg(p), MemoryArgs(u), MemoryArgs(m))

SyntheticPart(sessionID, h, text) ==
  [id |-> <<"momo-context-", sessionID>>, sessionID |-> sessionID,
   messageID |-> h, type |-> "text", text |-> text, synthetic |-> TRUE]

\* a part the host put into output.parts before calling the hook
HostPart(sessionID, h, i) ==
  [id |-> <<"part-", i>>, sessionID |-> sessionID, messageID |-> h,
   type |-> "text", text |-> << <<"user text">> >>, synthetic |-> FALSE]

\* try { ... } catch { }: how the hook ends for each way its body ends
ChatCatch(result) == "ok"

\* (the session is not recorded)
MarkInjectedLost(sessionID) == injectedSessions

\* injectedSessions.add(sessionID)
MarkInjected(sessionID) == injectedSessions \cup {sessionID}

ChatStep(op, h, sessionID, p, u, m, added, completed) ==
  [op |-> op, h |-> h, sid |-> sessionID,
   wasInjected |-> sessionID \in injectedSessions,
   profile |-> p, user |-> u, project |-> m,
   added |-> added, completed |-> completed]

NoOutcome == [ok |-> FALSE, value |-> << >>]

\* the hook is called: the part of it that runs before the first await
ChatMessage(h, sessionID) ==
  /\ ChatFrame
  /\ hooks[h].pc = "idle"
  /\ parts' = [parts EXCEPT
                 ![h] = [i \in 1..(h - 1) |-> HostPart(sessionID, h, i)]]
  /\ IF sessionID \in injectedSessions \/ ~momo
       THEN /\ hooks' = [hooks EXCEPT ![h] = [pc |-> "done", sid |-> sessionID]]
            /\ UNCHANGED injectedSessions
       ELSE /\ injectedSessions' = MarkInjected(sessionID)
            /\ hooks' = [hooks EXCEPT
                           ![h] = [pc |-> "fetching", sid |-> sessionID]]
  /\ lastChat' = ChatStep("called", h, sessionID, NoOutcome, NoOutcome,
                          NoOutcome, 0, "ok")
  /\ UNCHANGED momo

\* (the part is added at the end of the list)
push(list, part) == list \o <<part>>

\* list.unshift(part)
unshift(list, part) == <<part>> \o list

\* (a session whose attempt added nothing is forgotten)
KeptInjectedRetry(sessionID, inject) ==
  IF inject THEN injectedSessions ELSE injectedSessions \ {sessionID}

\* injectedSessions after the fetches: 'if (!contextText) return' and the
\* catch block leave the set as it is
KeptInjected(sessionID, inject) == injectedSessions

\* the three fetches have settled: the rest of the hook runs
ChatFetched(h, p, u, m) ==
  /\ ChatFrame
  /\ hooks[h].pc = "fetching"
  /\ LET sessionID == hooks[h].sid
         profile == CatchNull(p)
         userMemories == ResultsOrEmpty(u)
         projectMemories == ResultsOrEmpty(m)
         allOk == profile.ok /\ userMemories.ok /\ projectMemories.ok
         contextText == IF allOk
                          THEN ContextText(profile.value, userMemories.value,
                                           projectMemories.value)
                          ELSE << >>
         inject == allOk /\ contextText # << >>
     IN  /\ parts' = IF inject
                       THEN [parts EXCEPT ![h] =
                               unshift(@, SyntheticPart(sessionID, h,
                                                        contextText))]
                       ELSE parts
         /\ lastChat' = ChatStep("fetched", h, sessionID, p, u, m,
                                 IF inject THEN 1 ELSE 0,
                                 ChatCatch(IF allOk THEN "ok" ELSE "threw"))
         /\ injectedSessions' = KeptInjected(sessionID, inject)
  /\ hooks' = [hooks EXCEPT ![h].pc = "done"]
  /\ UNCHANGED momo

ChatInit ==
  /\ injectedSessions = {}
  /\ hooks = [h \in HookIds |-> [pc |-> "idle", sid |-> "s1"]]
  /\ parts = [h \in HookIds |-> << >>]
  /\ lastChat = [op |-> "init", h |-> 1, sid |-> "s1", wasInjected |-> FALSE,
                 profile |-> NoOutcome, user |-> NoOutcome,
                 project |-> NoOutcome, added |-> 0, completed |-> "ok"]

ChatNext ==
  \/ \E h \in HookIds, s \in Sessions : ChatMessage(h, s)
  \/ \E h \in HookIds, p \in ProfileOutcomes, u \in SearchOutcomes,
         m \in SearchOutcomes : ChatFetched(h, p, u, m)

----------------------------------------------------------------------------
(***************************************************************************)
(* index.ts: waitForIngestion                                              *)
(***************************************************************************)

\* the largest clock value told apart: every timeout has expired by then
MaxClock == MaxStart + MaxTimeout + 1

Statuses == {"pending", "processing", "completed", "failed"}

Min(a, b) == IF a < b THEN a ELSE b

\* (the bound of the wait is inclusive)
KeepPollingInclusive(t, start, timeout) == t - start <= timeout

\* (a query is made before any time has passed, whatever the timeout)
KeepPollingFromStart(t, start, timeout) == t = start \/ t - start < timeout

\* the loop condition: Date.now() - start < timeoutMs
KeepPolling(t, start, timeout) == t - start < timeout

\* (every answer ends the wait)
IsTerminalAlways(status) == TRUE

\* status.status === "completed" || status.status === "failed"
IsTerminal(status) == status = "completed" \/ status = "failed"

\* the head of the while loop: a new status query or the synthetic result
LoopHead(start) ==
  IF KeepPolling(now, start, timeoutMs)
    THEN /\ wPc' = "querying"
         /\ wQueryAt' = now
         /\ UNCHANGED wResult
    ELSE /\ wPc' = "returned"
         /\ wResult' = "processing"
         /\ UNCHANGED wQueryAt

\* waitForIngestion is called
WaitForIngestion ==
  /\ PollFrame
  /\ wPc = "idle"
  /\ wStart' = now
  /\ LoopHead(now)
  /\ UNCHANGED <<now, timeoutMs, pollIntervalMs, wakeAt, wObserved>>

\* getIngestionStatus answers
StatusReturned(status) ==
  /\ PollFrame
  /\ wPc = "querying"
  /\ wObserved' = status
  /\ IF IsTerminal(status)
       THEN /\ wPc' = "returned"
            /\ wResult' = status
            /\ UNCHANGED wakeAt
       ELSE /\ wPc' = "sleeping"
            /\ wakeAt' = Min(now + pollIntervalMs, MaxClock)
            /\ UNCHANGED wResult
  /\ UNCHANGED <<now, wStart, timeoutMs, pollIntervalMs, wQueryAt>>

\* getIngestionStatus fails: the error leaves waitForIngestion
StatusThrew ==
  /\ PollFrame
  /\ wPc = "querying"
  /\ wObserved' = "error"
  /\ wPc' = "threw"
  /\ UNCHANGED <<now, wStart, timeoutMs, pollIntervalMs, wakeAt, wResult,
                 wQueryAt>>

\* the delay() timer fires
Wake ==
  /\ PollFrame
  /\ wPc = "sleeping"
  /\ now >= wakeAt
  /\ LoopHead(wStart)
  /\ UNCHANGED <<now, wStart, timeoutMs, pollIntervalMs, wakeAt, wObserved>>

\* a millisecond of the wait passes
PollTick ==
  /\ PollFrame
  /\ wPc # "idle"
  /\ now < MaxClock
  /\ now' = now + 1
  /\ UNCHANGED pollVars

PollIdle ==
  /\ wPc = "idle"
  /\ wStart = 0
  /\ wakeAt = 0
  /\ wResult = "none"
  /\ wObserved = "none"
  /\ wQueryAt = -1

PollInit ==
  /\ PollIdle
  /\ timeoutMs \in -1..MaxTimeout
  /\ pollIntervalMs \in 0..MaxPoll

PollNext ==
  \/ WaitForIngestion
  \/ \E st \in Statuses : StatusReturned(st)
  \/ StatusThrew
  \/ Wake
  \/ PollTick

----------------------------------------------------------------------------
(***************************************************************************)
(* config.ts                                                               *)
(*                                                                         *)
(* A field value is undefined, null or a string.                           *)
(***************************************************************************)

DEFAULT_BASE_URL == "http://localhost:3000"

Fields == {"apiKey", "baseUrl", "containerTagUser", "containerTagProject"}

Undef == [t |-> "undef", v |-> ""]
Null == [t |-> "null", v |-> ""]
Str(v) == [t |-> "str", v |-> v]

\* a ?? b
Coalesce(a, b) == IF a.t = "undef" \/ a.t = "null" THEN b ELSE a

EmptyObject == [f \in Fields |-> Undef]

\* the values each source uses in this model
SourceValue ==
  [env |-> [apiKey |-> "env-key", baseUrl |-> "http://env",
            containerTagUser |-> "env-user", containerTagProject |-> "env-project"],
   dot |-> [apiKey |-> "dot-key", baseUrl |-> "http://dot",
            containerTagUser |-> "dot-user", containerTagProject |-> "dot-project"],
   plain |-> [apiKey |-> "plain-key", baseUrl |-> "http://plain",
              containerTagUser |-> "plain-user",
              containerTagProject |-> "plain-project"],
   global |-> [apiKey |-> "global-key", baseUrl |-> "http://global",
               containerTagUser |-> "global-user",
               containerTagProject |-> "global-project"]]

FullObject(src) == [f \in Fields |-> Str(SourceValue[src][f])]

\* objects in which every field is absent or set; baseUrl may also be null
Objects(src) ==
  {o \in [Fields -> {Undef, Null} \cup {Str(SourceValue[src][f]) : f \in Fields}] :
     \A f \in Fields :
        /\ o[f].t = "str" => o[f].v = SourceValue[src][f]
        /\ o[f].t = "null" => f = "baseUrl"}

File(kind, obj) == [kind |-> kind, obj |-> obj]

\* a file that is missing, unreadable, not JSON, the JSON value null, or an
\* object
BrokenFiles ==
  {File(k, EmptyObject) : k \in {"missing", "unreadable", "malformed", "null"}}

Environments ==
  {e \in [Fields -> {Undef, Str("")} \cup {Str(SourceValue.env[f]) : f \in Fields}] :
     \A f \in Fields :
        /\ e[f].t = "str" /\ e[f].v # "" => e[f].v = SourceValue.env[f]
        /\ e[f] = Str("") => f = "apiKey"}

\* existsSync(path)
existsSync(file) == file.kind # "missing"

\* readJsoncConfigFile: the parsed value, {} when reading or parsing throws
readJsoncConfigFile(file) ==
  IF file.kind \in {"missing", "unreadable", "malformed"}
    THEN [isNull |-> FALSE, obj |-> EmptyObject]
  ELSE IF file.kind = "null"
    THEN [isNull |-> TRUE, obj |-> EmptyObject]
  ELSE [isNull |-> FALSE, obj |-> file.obj]

readConfigFile == readJsoncConfigFile(globalFile)

\* (the plain file is read when the dotted one holds no object)
readProjectConfigFileFallback(dir) ==
  IF ~dir THEN [isNull |-> FALSE, obj |-> EmptyObject]
  ELSE IF dotFile.kind = "object" THEN readJsoncConfigFile(dotFile)
  ELSE IF existsSync(plainFile) THEN readJsoncConfigFile(plainFile)
  ELSE [isNull |-> FALSE, obj |-> EmptyObject]

\* readProjectConfigFile: .momo.jsonc when it exists, else momo.jsonc when
\* it exists, else {}
readProjectConfigFile(dir) ==
  IF ~dir THEN [isNull |-> FALSE, obj |-> EmptyObject]
  ELSE IF existsSync(dotFile) THEN readJsoncConfigFile(dotFile)
  ELSE IF existsSync(plainFile) THEN readJsoncConfigFile(plainFile)
  ELSE [isNull |-> FALSE, obj |-> EmptyObject]

\* (precedence per object: a project file that sets anything hides the
\* global file)
ChainPerObject(f, projectConfig, globalConfig) ==
  IF Coalesce(env[f], Undef) # Undef
    THEN [threw |-> FALSE, value |-> env[f]]
  ELSE IF projectConfig.isNull \/ globalConfig.isNull
    THEN [threw |-> TRUE, value |-> Undef]
  ELSE IF projectConfig.obj # EmptyObject
    THEN [threw |-> FALSE, value |-> projectConfig.obj[f]]
  ELSE [threw |-> FALSE, value |-> globalConfig.obj[f]]

\* env ?? projectConfig.f ?? globalConfig.f: reading a property of
\* null throws, but only when the chain gets that far
Chain(f, projectConfig, globalConfig) ==
  IF Coalesce(env[f], Undef) # Undef
    THEN [threw |-> FALSE, value |-> env[f]]
  ELSE IF projectConfig.isNull
    THEN [threw |-> TRUE, value |-> Undef]
  ELSE IF Coalesce(projectConfig.obj[f], Undef) # Undef
    THEN [threw |-> FALSE, value |-> projectConfig.obj[f]]
  ELSE IF globalConfig.isNull
    THEN [threw |-> TRUE, value |-> Undef]
  ELSE [threw |-> FALSE, value |-> globalConfig.obj[f]]

\* (no built-in default at the end of the baseUrl chain)
FieldExprNoDefault(f, projectConfig, globalConfig) ==
  Chain(f, projectConfig, globalConfig)

\* the expression loadConfig evaluates for one field
FieldExpr(f, projectConfig, globalConfig) ==
  IF f = "baseUrl"
    THEN LET c == Chain(f, projectConfig, globalConfig)
         IN  [c EXCEPT !.value = Coalesce(@, Str(DEFAULT_BASE_URL))]
    ELSE Chain(f, projectConfig, globalConfig)

loadConfig(dir) ==
  LET globalConfig == readConfigFile
      projectConfig == readProjectConfigFile(dir)
      r == [f \in Fields |-> FieldExpr(f, projectConfig, globalConfig)]
  IN  IF \E f \in Fields : r[f].threw
        THEN [status |-> "threw", value |-> EmptyObject]
        ELSE [status |-> "ok", value |-> [f \in Fields |-> r[f].value]]

\* isConfigured for a configuration loadConfig returned
isConfigured(cfg) == cfg.apiKey.t = "str" /\ cfg.apiKey.v # ""

\* loadConfig(directory) is called
LoadConfig ==
  /\ CfgFrame
  /\ config.status = "none"
  /\ config' = loadConfig(directory)
  /\ UNCHANGED <<env, directory, dotFile, plainFile, globalFile>>

CfgIdle ==
  /\ env = EmptyObject
  /\ directory = FALSE
  /\ dotFile = File("missing", EmptyObject)
  /\ plainFile = File("missing", EmptyObject)
  /\ globalFile = File("missing", EmptyObject)
  /\ config = [status |-> "none", value |-> EmptyObject]

CfgInit ==
  /\ env \in Environments
  /\ directory \in BOOLEAN
  /\ dotFile \in BrokenFiles \cup {File("object", o) : o \in Objects("dot")}
  /\ plainFile \in {File("missing", EmptyObject), File("malformed", EmptyObject),
                     File("object", FullObject("plain"))}
  /\ globalFile \in BrokenFiles
       \cup {File("object", o) : o \in
               {EmptyObject, FullObject("global"),
                [FullObject("global") EXCEPT !.baseUrl = Undef,
                                             !.containerTagProject = Undef]}}
  /\ config = [status |-> "none", value |-> EmptyObject]

CfgNext == LoadConfig

----------------------------------------------------------------------------
(***************************************************************************)
(* services/privacy.ts                                                     *)
(* A text is the sequence of its characters.                               *)
(***************************************************************************)
OpenMarker == <<"<", "p", "r", "i", "v", "a", "t", "e", ">">>
CloseMarker == <<"<", "/", "p", "r", "i", "v", "a", "t", "e", ">">>

\* the pieces the texts of the model are made of: the two markers, the two
\* halves of an opening marker, a letter and a line break
Fragments ==
  {OpenMarker, CloseMarker, <<"<", "p", "r", "i">>, <<"v", "a", "t", "e", ">">>,
   <<"x">>, <<"\n">>}

RECURSIVE TextsOf(_)
TextsOf(n) ==
  IF n = 0 THEN {<< >>}
  ELSE LET shorter == TextsOf(n - 1)
       IN  shorter \cup {t \o f : t \in shorter, f \in Fragments}

Texts == TextsOf(MaxFrags)

\* the characters \s matches, of those that occur in Texts
Whitespace == {" ", "\n", "\t"}

\* marker occurs in text at index i
MatchAt(text, marker, i) ==
  /\ i >= 1
  /\ i + Len(marker) - 1 <= Len(text)
  /\ SubSeq(text, i, i + Len(marker) - 1) = marker

\* the first index at or after from where marker occurs, 0 when none
RECURSIVE indexOf(_, _, _)
indexOf(text, marker, from) ==
  IF from + Len(marker) - 1 > Len(text) THEN 0
  ELSE IF MatchAt(text, marker, from) THEN from
  ELSE indexOf(text, marker, from + 1)

\* the last index at or after from where marker occurs, 0 when none
RECURSIVE lastIndexOf(_, _, _)
lastIndexOf(text, marker, from) ==
  LET i == indexOf(text, marker, from)
  IN  IF i = 0 THEN 0
      ELSE LET later == lastIndexOf(text, marker, i + 1)
           IN  IF later = 0 THEN i ELSE later

\* (the span runs to the last closing marker: a greedy [\s\S]*)
closingOfGreedy(text, open) ==
  lastIndexOf(text, CloseMarker, open + Len(OpenMarker))

\* where [\s\S]*?<\/private> ends a match that opened at index open: at the
\* first closing marker behind the opening one, 0 when there is none
closingOf(text, open) ==
  indexOf(text, CloseMarker, open + Len(OpenMarker))

\* text.replace(/<private>[\s\S]*?<\/private>/g, "") from index from on: the
\* leftmost opening marker that has a closing marker after it is matched up
\* to the first such closing marker, and the search goes on behind the match
RECURSIVE replacePrivate(_, _)
replacePrivate(text, from) ==
  LET open == indexOf(text, OpenMarker, from)
      close == IF open = 0 THEN 0 ELSE closingOf(text, open)
  IN  IF open = 0 \/ close = 0
        THEN SubSeq(text, from, Len(text))
        ELSE SubSeq(text, from, open - 1)
               \o replacePrivate(text, close + Len(CloseMarker))

RECURSIVE trimStart(_)
trimStart(text) ==
  IF text # << >> /\ Head(text) \in Whitespace THEN trimStart(Tail(text))
  ELSE text

RECURSIVE trimEnd(_)
trimEnd(text) ==
  IF text # << >> /\ text[Len(text)] \in Whitespace
    THEN trimEnd(SubSeq(text, 1, Len(text) - 1))
    ELSE text

\* String.prototype.trim
trim(text) == trimEnd(trimStart(text))

stripPrivateContent(text) ==
  IF text = << >> THEN << >>
  ELSE trim(replacePrivate(text, 1))

\* (the text is private when nothing at all is left outside the spans)
isFullyPrivateUntrimmed(text) ==
  LET stripped == replacePrivate(text, 1)
  IN  Len(stripped) = 0

isFullyPrivate(text) ==
  LET stripped == stripPrivateContent(text)
  IN  Len(stripped) = 0

\* stripPrivateContent(privText) is called
StripPrivateContent ==
  /\ PrivFrame
  /\ privOut.op = "none"
  /\ privOut' = [op |-> "stripPrivateContent",
                 value |-> stripPrivateContent(privText)]
  /\ UNCHANGED privText

\* isFullyPrivate(privText) is called
IsFullyPrivate ==
  /\ PrivFrame
  /\ privOut.op = "none"
  /\ privOut' = [op |-> "isFullyPrivate", value |-> isFullyPrivate(privText)]
  /\ UNCHANGED privText

PrivIdle ==
  /\ privText = << >>
  /\ privOut = [op |-> "none", value |-> FALSE]

PrivInit ==
  /\ privText \in Texts
  /\ privOut = [op |-> "none", value |-> FALSE]

PrivNext == StripPrivateContent \/ IsFullyPrivate


----------------------------------------------------------------------------
(***************************************************************************)
(* services/tags.ts: simpleHash                                            *)
(* A string is the sequence of its characters.  A Number that holds an     *)
(* integer is [neg, hi, lo] with magnitude hi * 2^16 + lo; an unsigned     *)
(* 32-bit integer is [hi, lo] with both halves below 2^16.                 *)
(***************************************************************************)
Half == 65536

\* the UTF-16 code units of the characters hashed in the model; "U+FFFF" is
\* the one character with that code unit
charCode ==
  [c \in {"a", "b", "/", "U+FFFF", "A", " ", ".", "k", "n", "o", "u", "w"} |->
     CASE c = "a" -> 97
       [] c = "b" -> 98
       [] c = "/" -> 47
       [] c = "U+FFFF" -> 65535
       [] c = "A" -> 65
       [] c = " " -> 32
       [] c = "." -> 46
       [] c = "k" -> 107
       [] c = "n" -> 110
       [] c = "o" -> 111
       [] c = "u" -> 117
       [] c = "w" -> 119]

HashAlphabet == {"a", "b", "/", "U+FFFF"}

RECURSIVE StringsOf(_, _)
StringsOf(alphabet, n) ==
  IF n = 0 THEN {<< >>}
  ELSE LET shorter == StringsOf(alphabet, n - 1)
       IN  shorter \cup {Append(t, c) : t \in shorter, c \in alphabet}

HashInputs == StringsOf(HashAlphabet, MaxHashLen)

\* a ^ b on non-negative integers
RECURSIVE BitXor(_, _)
BitXor(a, b) ==
  IF a = 0 THEN b
  ELSE IF b = 0 THEN a
  ELSE (((a % 2) + (b % 2)) % 2) + 2 * BitXor(a \div 2, b \div 2)

\* the two's complement of an unsigned 32-bit integer
Negate32(u) ==
  LET borrow == IF u.lo > 0 THEN 1 ELSE 0
  IN  [hi |-> (Half - u.hi - borrow) % Half, lo |-> (Half - u.lo) % Half]

\* ToUint32 of a Number: its value modulo 2^32
ToUint32(n) ==
  LET m == [hi |-> n.hi % Half, lo |-> n.lo]
  IN  IF n.neg THEN Negate32(m) ELSE m

\* the Number an int32 bit pattern stands for: negative when bit 31 is set
FromInt32(u) ==
  IF u.hi >= Half \div 2
    THEN LET m == Negate32(u) IN [neg |-> TRUE, hi |-> m.hi, lo |-> m.lo]
    ELSE [neg |-> FALSE, hi |-> u.hi, lo |-> u.lo]

\* h * 33 on Numbers
Times33(n) ==
  LET low == n.lo * 33
  IN  [neg |-> n.neg, hi |-> (n.hi * 33) + (low \div Half), lo |-> low % Half]

\* a Number that holds an integer is exact while its magnitude is below 2^53
IsSafeInteger(n) == n.hi \div Half < 2097152

\* (h * 33) + code
XorCodeAsSum(u, code) ==
  [hi |-> (u.hi + ((u.lo + code) \div Half)) % Half,
   lo |-> (u.lo + code) % Half]

\* bits ^ code, the code unit being below 2^16
XorCode(u, code) == [hi |-> u.hi, lo |-> BitXor(u.lo, code)]

\* h = (h * 33) ^ input.charCodeAt(i): both operands of ^ go through ToInt32
\* and the result is an int32
HashStep(h, c) == FromInt32(XorCode(ToUint32(Times33(h)), charCode[c]))

HexDigits == <<"0", "1", "2", "3", "4", "5", "6", "7", "8", "9",
               "a", "b", "c", "d", "e", "f">>

Hex4(n) == <<HexDigits[(n \div 4096) + 1], HexDigits[((n \div 256) % 16) + 1],
             HexDigits[((n \div 16) % 16) + 1], HexDigits[(n % 16) + 1]>>

RECURSIVE DropLeadingZeros(_)
DropLeadingZeros(digits) ==
  IF Len(digits) > 1 /\ Head(digits) = "0" THEN DropLeadingZeros(Tail(digits))
  ELSE digits

\* Number.prototype.toString(16) of an unsigned 32-bit integer
toString16(u) == DropLeadingZeros(Hex4(u.hi) \o Hex4(u.lo))

\* the loop of simpleHash from index i on; exact stays TRUE while every
\* product h * 33 is a safe integer, negative records that h went below 0
RECURSIVE hashLoop(_, _, _, _, _)
hashLoop(input, i, h, exact, negative) ==
  IF i > Len(input)
    THEN [hex |-> toString16(ToUint32(h)), exact |-> exact,
          negative |-> negative]
    ELSE LET next == HashStep(h, input[i])
         IN  hashLoop(input, i + 1, next,
                      exact /\ IsSafeInteger(Times33(h)),
                      negative \/ next.neg)

simpleHash(input) ==
  hashLoop(input, 1, [neg |-> FALSE, hi |-> 0, lo |-> 5381], TRUE, FALSE)

\* simpleHash(hashInput) is called
SimpleHash ==
  /\ HashFrame
  /\ ~hashOut.done
  /\ hashOut' = [done |-> TRUE, result |-> simpleHash(hashInput)]
  /\ UNCHANGED hashInput

NoHash == [done |-> FALSE,
           result |-> [hex |-> << >>, exact |-> TRUE, negative |-> FALSE]]

HashIdle == hashInput = << >> /\ hashOut = NoHash

HashInit == hashInput \in HashInputs /\ hashOut = NoHash

HashNext == SimpleHash


----------------------------------------------------------------------------
(***************************************************************************)
(* services/tags.ts: the container tags                                    *)
(* An optional string is << >> (undefined) or <<s>>.                       *)
(***************************************************************************)

\* the hexadecimal numeral simpleHash returns
hashHex(input) == simpleHash(input).hex

\* value || fallback on an optional string
OrElse(opt, fallback) ==
  IF opt # << >> /\ opt[1] # << >> THEN opt[1] ELSE fallback

\* userTag(), os.userInfo().username being username
userTag(username) ==
  <<"o", "p", "e", "n", "c", "o", "d", "e", "-", "u", "s", "e", "r", "-">>
    \o hashHex(OrElse(<<username>>, <<"u", "n", "k", "n", "o", "w", "n">>))

\* dir.replace(/[\\/]+$/, "")
RECURSIVE dropTrailingSlashes(_)
dropTrailingSlashes(path) ==
  IF path # << >> /\ path[Len(path)] = "/"
    THEN dropTrailingSlashes(SubSeq(path, 1, Len(path) - 1))
    ELSE path

\* path.basename of a path without trailing slashes
RECURSIVE basename(_)
basename(path) ==
  IF path = << >> THEN << >>
  ELSE IF path[Len(path)] = "/" THEN << >>
  ELSE Append(basename(SubSeq(path, 1, Len(path) - 1)), path[Len(path)])

\* toLowerCase on one character
toLowerCase(c) == IF c = "A" THEN "a" ELSE c

\* [a-z0-9]
SlugChars ==
  {"a", "b", "c", "d", "e", "f", "g", "h", "i", "j", "k", "l", "m", "n", "o",
   "p", "q", "r", "s", "t", "u", "v", "w", "x", "y", "z",
   "0", "1", "2", "3", "4", "5", "6", "7", "8", "9"}

\* .replace(/[^a-z0-9]+/g, "-"): every run of other characters becomes one
\* dash
RECURSIVE dashRuns(_)
dashRuns(value) ==
  IF value = << >> THEN << >>
  ELSE IF Head(value) \in SlugChars THEN <<Head(value)>> \o dashRuns(Tail(value))
  ELSE IF Len(value) > 1 /\ value[2] \notin SlugChars THEN dashRuns(Tail(value))
  ELSE <<"-">> \o dashRuns(Tail(value))

\* .replace(/^-+|-+$/g, "")
RECURSIVE dropOuterDashes(_)
dropOuterDashes(value) ==
  IF value # << >> /\ Head(value) = "-" THEN dropOuterDashes(Tail(value))
  ELSE IF value # << >> /\ value[Len(value)] = "-"
    THEN dropOuterDashes(SubSeq(value, 1, Len(value) - 1))
  ELSE value

slugify(value) ==
  LET lower == [k \in 1..Len(value) |-> toLowerCase(value[k])]
      slug == dropOuterDashes(dashRuns(lower))
  IN  SubSeq(slug, 1, IF Len(slug) < 80 THEN Len(slug) ELSE 80)

\* .padStart(8, "0").slice(-8)
RECURSIVE padStart8(_)
padStart8(digits) ==
  IF Len(digits) < 8 THEN padStart8(<<"0">> \o digits) ELSE digits

shortHash(input) ==
  LET padded == padStart8(hashHex(input))
  IN  SubSeq(padded, Len(padded) - 7, Len(padded))

projectTag(path) ==
  LET dir == OrElse(path, <<".">>)
      projectName == basename(dropTrailingSlashes(dir))
      slug == OrElse(<<slugify(projectName)>>, <<"p", "r", "o", "j", "e", "c", "t">>)
      hash == shortHash(dir)
  IN  <<"o", "c", "p", "-">> \o slug \o <<"-">> \o hash

getTags(path, username) ==
  [user |-> userTag(username), project |-> projectTag(path)]

\* overrides?.field as an optional string
OverrideOf(overrides, field) ==
  IF overrides = << >> THEN << >> ELSE overrides[1][field]

\* (an override is hashed like a derived name)
getTagsWithOverridesHashed(path, username, overrides) ==
  LET tags == getTags(path, username)
      user == OverrideOf(overrides, "containerTagUser")
      project == OverrideOf(overrides, "containerTagProject")
  IN  [user |-> IF user # << >> /\ user[1] # << >>
                  THEN userTag(user[1]) ELSE tags.user,
       project |-> IF project # << >> /\ project[1] # << >>
                     THEN projectTag(project) ELSE tags.project]

\* (an override replaces the derived tag unless it is undefined)
getTagsWithOverridesNullish(path, username, overrides) ==
  LET tags == getTags(path, username)
      user == OverrideOf(overrides, "containerTagUser")
      project == OverrideOf(overrides, "containerTagProject")
  IN  [user |-> IF user # << >> THEN user[1] ELSE tags.user,
       project |-> IF project # << >> THEN project[1] ELSE tags.project]

\* an override replaces the derived tag when it is truthy
getTagsWithOverrides(path, username, overrides) ==
  LET tags == getTags(path, username)
      user == OverrideOf(overrides, "containerTagUser")
      project == OverrideOf(overrides, "containerTagProject")
  IN  [user |-> IF user # << >> /\ user[1] # << >>
                  THEN user[1] ELSE tags.user,
       project |-> IF project # << >> /\ project[1] # << >>
                     THEN project[1] ELSE tags.project]

\* cli.ts, writeMomoConfig: the container tag written into momo.jsonc,
\* prior ?? ""
WrittenContainerTag(prior) == IF prior = << >> THEN << << >> >> ELSE prior

\* the two container tags of the file the configure command writes
WrittenOverrides(priorUser, priorProject) ==
  <<[containerTagUser |-> WrittenContainerTag(priorUser),
     containerTagProject |-> WrittenContainerTag(priorProject)]>>

\* the directories, user names and overrides of the model
TagDirectories ==
  {<< >>, <<<< >>>>, <<<<"/">>>>, <<<<"/", "a", "/", "b", "o", "b">>>>, <<<<"/", "a", "/", "A", " ", "b", ".", "/">>>>, <<<<"/", "b", "/", "b", "o", "b">>>>}

TagUsernames == {<< >>, <<"b", "o", "b">>}

OverrideValues(custom) == {<< >>, <<<< >>>>, <<custom>>}

TagOverrides ==
  {<< >>} \cup
  {<<[containerTagUser |-> u, containerTagProject |-> p]>> :
     u \in OverrideValues(<<"b", "o", "b">>),
     p \in OverrideValues(<<"A", " ", "b">>)}

\* getTagsWithOverrides(directory, overrides) is called
GetTagsWithOverrides ==
  /\ TagFrame
  /\ ~tagOut.done
  /\ tagOut' = [done |-> TRUE,
                tags |-> getTagsWithOverrides(tagArgs.directory,
                                              tagArgs.username,
                                              tagArgs.overrides)]
  /\ UNCHANGED tagArgs

NoTags == [done |-> FALSE, tags |-> [user |-> << >>, project |-> << >>]]

TagIdle ==
  /\ tagArgs = [directory |-> << >>, username |-> << >>, overrides |-> << >>]
  /\ tagOut = NoTags

TagInit ==
  /\ tagArgs \in [directory : TagDirectories, username : TagUsernames,
                  overrides : TagOverrides]
  /\ tagOut = NoTags

TagNext == GetTagsWithOverrides


----------------------------------------------------------------------------
(***************************************************************************)
(* index.ts: the plugin's construction and the tools momo and momo_ingest  *)
(***************************************************************************)
\* a message is the sequence of the pieces it is put together from
HELP_TEXT == <<"**Momo Memory Commands** ...">>
NotConfigured ==
  <<"Momo is not configured. Set MOMO_API_KEY or configure ~/.config/opencode/momo.jsonc (or project-local .momo.jsonc).">>
ContentRequired == <<"Error: 'content' is required for add mode.">>
EntirelyPrivate ==
  <<"Error: Content is entirely private (wrapped in <private> tags). Nothing to store.">>
QueryRequired == <<"Error: 'query' is required for search mode.">>
MemoryIdRequired == <<"Error: 'memoryId' is required for forget mode.">>
UnknownMode == <<"Unknown mode. Use 'help' to see available commands.">>
\* the exception of a failed backend call
BackendError == <<"backend error">>

\* how a tool invocation ends: a returned message, or an exception
Returned(message, calls) ==
  [outcome |-> "returned", message |-> message, calls |-> calls]
Threw(message, calls) ==
  [outcome |-> "threw", message |-> message, calls |-> calls]

\* (only undefined counts as missing)
MissingUndefinedOnly(opt) == opt = << >>

\* !value on an optional text
Missing(opt) == opt = << >> \/ opt[1] = << >>

\* args.scope ?? fallback
ScopeOr(scope, fallback) == IF scope = << >> THEN fallback ELSE scope[1]

resolveContainerTag(scope) ==
  IF scope = "user" THEN PluginTags.user ELSE PluginTags.project

\* (no client is required)
requireMomoLenient(client) == TRUE

\* requireMomo returns the client when there is one and throws otherwise
requireMomo(client) == client

\* what the backend does with a call: it throws, or answers with nothing
\* found, or answers with data
Answers == {"threw", "empty", "data"}

ToolContents ==
  {<< >>, <<<< >>>>, <<<<"x">>>>, <<<<"\n">>>>,
   <<OpenMarker \o <<"x">> \o CloseMarker>>,
   <<OpenMarker \o <<"x">> \o CloseMarker \o <<"\n">>>>,
   <<<<"x">> \o OpenMarker \o <<"x", "\n">> \o CloseMarker \o <<"x">>>>,
   <<<<"<", "p", "r", "i">> \o OpenMarker \o CloseMarker
       \o <<"v", "a", "t", "e", ">">> \o <<"x">> \o CloseMarker>>}

Scopes == {<< >>, <<"user">>, <<"project">>}

\* mode add of the momo tool
AddMode(client, content, scope, answer) ==
  IF ~requireMomo(client) THEN Threw(NotConfigured, << >>)
  ELSE IF Missing(content) THEN Returned(ContentRequired, << >>)
  ELSE LET cleaned == stripPrivateContent(content[1])
           call == [op |-> "memories.create", content |-> cleaned,
                    containerTag |-> <<resolveContainerTag(ScopeOr(scope, "project"))>>]
       IN  IF isFullyPrivate(content[1]) THEN Returned(EntirelyPrivate, << >>)
           ELSE IF answer = "threw" THEN Threw(BackendError, <<call>>)
           ELSE Returned(<<"Memory stored successfully (ID: ", "mem_1",
                           ", scope: ", ScopeOr(scope, "project"), ").">>,
                         <<call>>)

\* mode search
SearchMode(client, query, scope, answer) ==
  IF ~requireMomo(client) THEN Threw(NotConfigured, << >>)
  ELSE IF Missing(query) THEN Returned(QueryRequired, << >>)
  ELSE LET call == [op |-> "search.search", content |-> query[1],
                    containerTag |->
                      IF scope # << >> THEN <<resolveContainerTag(scope[1])>>
                      ELSE <<PluginTags.user, PluginTags.project>>]
       IN  IF answer = "threw" THEN Threw(BackendError, <<call>>)
           ELSE IF answer = "empty"
             THEN Returned(<<"No memories found matching your query.">>, <<call>>)
           ELSE Returned(<<"Found ", "1", " memories:">>, <<call>>)

\* mode profile
ProfileMode(client, scope, answer) ==
  IF ~requireMomo(client) THEN Threw(NotConfigured, << >>)
  ELSE LET call == [op |-> "profile.compute", content |-> << >>,
                    containerTag |-> <<resolveContainerTag(ScopeOr(scope, "user"))>>]
       IN  IF answer = "threw" THEN Threw(BackendError, <<call>>)
           ELSE IF answer = "empty"
             THEN Returned(<<"No profile data available yet. Add some memories first.">>,
                           <<call>>)
           ELSE Returned(<<"**Summary:**">>, <<call>>)

\* mode list
ListMode(client, scope, answer) ==
  IF ~requireMomo(client) THEN Threw(NotConfigured, << >>)
  ELSE LET call == [op |-> "memories.list", content |-> << >>,
                    containerTag |-> <<resolveContainerTag(ScopeOr(scope, "project"))>>]
       IN  IF answer = "threw" THEN Threw(BackendError, <<call>>)
           ELSE IF answer = "empty"
             THEN Returned(<<"No memories found for scope '",
                             ScopeOr(scope, "project"), "'.">>, <<call>>)
           ELSE Returned(<<"1", " memories (scope: ", ScopeOr(scope, "project"),
                           "):">>, <<call>>)

\* (the argument is validated before the client is required)
ForgetModeValidatedFirst(client, memoryId, answer) ==
  IF Missing(memoryId) THEN Returned(MemoryIdRequired, << >>)
  ELSE IF ~requireMomo(client) THEN Threw(NotConfigured, << >>)
  ELSE LET call == [op |-> "memories.forgetById", content |-> memoryId[1],
                    containerTag |-> << >>]
       IN  IF answer = "threw" THEN Threw(BackendError, <<call>>)
           ELSE Returned(<<"Memory ", memoryId[1], " has been forgotten.">>,
                         <<call>>)

\* mode forget
ForgetMode(client, memoryId, answer) ==
  IF ~requireMomo(client) THEN Threw(NotConfigured, << >>)
  ELSE IF Missing(memoryId) THEN Returned(MemoryIdRequired, << >>)
  ELSE LET call == [op |-> "memories.forgetById", content |-> memoryId[1],
                    containerTag |-> << >>]
       IN  IF answer = "threw" THEN Threw(BackendError, <<call>>)
           ELSE Returned(<<"Memory ", memoryId[1], " has been forgotten.">>,
                         <<call>>)

\* momoTool.execute
momoExecute(client, args, answer) ==
  CASE args.mode = "help" -> Returned(HELP_TEXT, << >>)
    [] args.mode = "add" -> AddMode(client, args.content, args.scope, answer)
    [] args.mode = "search" -> SearchMode(client, args.query, args.scope, answer)
    [] args.mode = "profile" -> ProfileMode(client, args.scope, answer)
    [] args.mode = "list" -> ListMode(client, args.scope, answer)
    [] args.mode = "forget" -> ForgetMode(client, args.memoryId, answer)
    [] OTHER -> Returned(UnknownMode, << >>)

Modes == {"help", "add", "search", "profile", "list", "forget", "other"}

NoArgs == [mode |-> "help", content |-> << >>, query |-> << >>,
           memoryId |-> << >>, scope |-> << >>]

\* the arguments of the momo tool that the mode reads
MomoArgs ==
  {[NoArgs EXCEPT !.mode = m] : m \in {"help", "other"}}
  \cup {[NoArgs EXCEPT !.mode = "add", !.content = c, !.scope = sc] :
          c \in ToolContents, sc \in Scopes}
  \cup {[NoArgs EXCEPT !.mode = "search", !.query = q, !.scope = sc] :
          q \in {<< >>, <<<< >>>>, <<<<"x">>>>}, sc \in Scopes}
  \cup {[NoArgs EXCEPT !.mode = m, !.scope = sc] :
          m \in {"profile", "list"}, sc \in Scopes}
  \cup {[NoArgs EXCEPT !.mode = "forget", !.memoryId = id] :
          id \in {<< >>, <<<< >>>>, <<<<"m", "1">>>>}}

\* input.startsWith(prefix)
startsWith(input, prefix) ==
  Len(input) >= Len(prefix) /\ SubSeq(input, 1, Len(prefix)) = prefix

inferInputType(input, inputType, exists) ==
  IF inputType # << >> /\ inputType[1] # "auto" THEN inputType[1]
  ELSE IF \/ startsWith(input, <<"h", "t", "t", "p", ":", "/", "/">>)
          \/ startsWith(input, <<"h", "t", "t", "p", "s", ":", "/", "/">>)
    THEN "url"
  ELSE IF exists THEN "file"
  ELSE "text"

\* momoIngestTool.execute: metadataOk says whether args.metadataJson parses
\* to an object, exists whether args.input names a file, answer what the
\* backend does with the upload or the creation, status what
\* waitForIngestion returns
momoIngestExecute(client, args, metadataOk, exists, answer, status) ==
  IF ~requireMomo(client) THEN Threw(NotConfigured, << >>)
  ELSE IF ~metadataOk THEN 
    Returned(<<"Error: ", "metadataJson must be a JSON object">>, << >>)
  ELSE LET scope == ScopeOr(args.scope, "project")
           inferred == inferInputType(args.input, args.inputType, exists)
           call == IF inferred = "file"
                     THEN [op |-> "documents:upload", content |-> << >>,
                           path |-> args.input,
                           containerTag |-> <<resolveContainerTag(scope)>>]
                     ELSE [op |-> "documents.create", content |-> args.input,
                           path |-> << >>,
                           containerTag |-> <<resolveContainerTag(scope)>>]
       IN  IF answer = "threw" THEN Threw(BackendError, <<call>>)
           ELSE IF ~args.wait
             THEN Returned(<<"Ingestion queued (scope: ", scope, ").">>, <<call>>)
           ELSE IF status # "completed"
             THEN Returned(<<"Ingestion status: ", status, " (scope: ", scope, ").">>,
                           <<call>>)
           ELSE Returned(<<"Document ready (scope: ", scope, ").">>, <<call>>)

IngestArgs ==
  [input : {c[1] : c \in ToolContents \ {<< >>}},
   inputType : {<< >>, <<"file">>},
   scope : {<< >>, <<"user">>},
   wait : BOOLEAN]

NoCall == [name |-> "none", args |-> NoArgs,
           result |-> Returned(<< >>, << >>)]

\* MomoPlugin(ctx): the configuration is loaded and the client is created
\* when it is configured
MomoPlugin ==
  /\ ToolFrame
  /\ config.status = "none"
  /\ config' = loadConfig(directory)
  /\ momo' = (config'.status = "ok" /\ isConfigured(config'.value))
  /\ UNCHANGED <<env, directory, dotFile, plainFile, globalFile, tool>>

\* the momo tool is invoked; invocations share no state, and a behaviour
\* follows one of them
MomoTool(args, answer) ==
  /\ ToolFrame
  /\ config.status = "ok"
  /\ tool.name = "none"
  /\ tool' = [name |-> "momo", args |-> args,
              result |-> momoExecute(momo, args, answer)]
  /\ UNCHANGED <<momo, cfgVars>>

\* the momo_ingest tool is invoked
MomoIngestTool(args, metadataOk, exists, answer, status) ==
  /\ ToolFrame
  /\ config.status = "ok"
  /\ tool.name = "none"
  /\ tool' = [name |-> "momo_ingest", args |-> args,
              result |-> momoIngestExecute(momo, args, metadataOk, exists,
                                           answer, status)]
  /\ UNCHANGED <<momo, cfgVars>>

ToolIdle == tool = NoCall

\* before the plugin is constructed: the key comes from the environment,
\* from the global file, or from nowhere
ToolInit ==
  /\ momo = FALSE
  /\ env \in {[EmptyObject EXCEPT !.apiKey = k] :
                k \in {Undef, Str(""), Str(SourceValue.env.apiKey)}}
  /\ directory \in BOOLEAN
  /\ dotFile \in {File("missing", EmptyObject),
                  File("object", [EmptyObject EXCEPT !.apiKey = Str("")])}
  /\ plainFile = File("missing", EmptyObject)
  /\ globalFile \in {File("missing", EmptyObject), File("null", EmptyObject),
                     File("object", FullObject("global"))}
  /\ config = [status |-> "none", value |-> EmptyObject]
  /\ tool = NoCall

ToolNext ==
  \/ MomoPlugin
  \/ \E args \in MomoArgs, answer \in Answers : MomoTool(args, answer)
  \/ \E args \in IngestArgs, metadataOk \in BOOLEAN, exists \in BOOLEAN,
        answer \in {"threw", "data"},
        status \in {"completed", "failed", "processing"} :
       MomoIngestTool(args, metadataOk, exists, answer, status)

LibIdle == PrivIdle /\ HashIdle /\ TagIdle /\ ToolIdle /\ CtxIdle

----------------------------------------------------------------------------
Init == EvInit /\ ChatInit /\ PollIdle /\ timeoutMs = 0 /\ pollIntervalMs = 0
        /\ CfgIdle /\ LibIdle
Next == EvNext
Spec == Init /\ [][Next]_vars

\* the initial states with one of the histories of hist kept
EvInitHist(kept) ==
  /\ momo \in BOOLEAN
  /\ now = 0
  /\ peak = << >>
  /\ hist = kept
  /\ EvQuiet

InitPeak == EvInitPeak /\ ChatInit /\ PollIdle /\ timeoutMs = 0
            /\ pollIntervalMs = 0 /\ CfgIdle /\ LibIdle
NextPeak == EvNext
SpecPeak == InitPeak /\ [][NextPeak]_vars

\* the event hook with the time of each session's latest failed call kept
InitFailed ==
  /\ EvInitHist([NoHist EXCEPT !.failedAt = [s \in Sessions |-> NoTime]])
  /\ ChatInit /\ PollIdle /\ timeoutMs = 0 /\ pollIntervalMs = 0
  /\ CfgIdle /\ LibIdle
NextFailed == EvNext
SpecFailed == InitFailed /\ [][NextFailed]_vars

\* the event hook with the sessions kept whose latest compaction was
\* rate-limited
InitDropped ==
  /\ EvInitHist([NoHist EXCEPT !.dropped = [s \in Sessions |-> FALSE]])
  /\ ChatInit /\ PollIdle /\ timeoutMs = 0 /\ pollIntervalMs = 0
  /\ CfgIdle /\ LibIdle
NextDropped == EvNext
SpecDropped == InitDropped /\ [][NextDropped]_vars

\* the event hook with the events of each session counted against its
\* ingestion requests
InitCounted ==
  /\ EvInitHist([NoHist EXCEPT
                   !.owed = [s \in Sessions |-> 0],
                   !.since = [s \in Sessions |-> 0]])
  /\ ChatInit /\ PollIdle /\ timeoutMs = 0 /\ pollIntervalMs = 0
  /\ CfgIdle /\ LibIdle
NextCounted == EvNext
SpecCounted == InitCounted /\ [][NextCounted]_vars

InitChat == EvInit /\ ChatInit /\ PollIdle /\ timeoutMs = 0
            /\ pollIntervalMs = 0 /\ CfgIdle /\ LibIdle
NextChat == ChatNext
SpecChat == InitChat /\ [][NextChat]_vars

InitPoll == /\ momo = TRUE /\ now \in 0..MaxStart /\ EvIdle
            /\ ChatInit /\ PollInit /\ CfgIdle /\ LibIdle
NextPoll == PollNext
SpecPoll == InitPoll /\ [][NextPoll]_vars
\* the clock advances, timers fire and every status query is answered
FairPoll == /\ SpecPoll
            /\ WF_vars(PollTick)
            /\ WF_vars(Wake)
            /\ WF_vars(WaitForIngestion)
            /\ WF_vars(StatusThrew \/ \E st \in Statuses : StatusReturned(st))

InitCfg == /\ momo = TRUE /\ now = 0 /\ EvIdle
           /\ ChatInit /\ PollIdle /\ timeoutMs = 0 /\ pollIntervalMs = 0
           /\ CfgInit /\ LibIdle
NextCfg == CfgNext
SpecCfg == InitCfg /\ [][NextCfg]_vars

\* the plugin at rest, for the specifications of its library functions
PluginIdle == /\ momo = TRUE /\ now = 0 /\ EvIdle /\ ChatInit /\ PollIdle
              /\ timeoutMs = 0 /\ pollIntervalMs = 0 /\ CfgIdle

InitPriv == /\ PluginIdle /\ PrivInit /\ HashIdle /\ TagIdle /\ ToolIdle
            /\ CtxIdle
NextPriv == PrivNext
SpecPriv == InitPriv /\ [][NextPriv]_vars

InitHash == /\ PluginIdle /\ PrivIdle /\ HashInit /\ TagIdle /\ ToolIdle
            /\ CtxIdle
NextHash == HashNext
SpecHash == InitHash /\ [][NextHash]_vars

InitTag == /\ PluginIdle /\ PrivIdle /\ HashIdle /\ TagInit /\ ToolIdle
           /\ CtxIdle

InitCtx == /\ PluginIdle /\ PrivIdle /\ HashIdle /\ TagIdle /\ ToolIdle
           /\ CtxInit
NextCtx == CtxNext
SpecCtx == InitCtx /\ [][NextCtx]_vars
NextTag == TagNext
SpecTag == InitTag /\ [][NextTag]_vars

\* the plugin without a client: the host delivers events and chat messages
InitUnconfigured == /\ momo = FALSE /\ now = 0 /\ EvIdle /\ ChatInit
                    /\ PollIdle /\ timeoutMs = 0 /\ pollIntervalMs = 0
                    /\ CfgIdle /\ LibIdle
NextUnconfigured ==
  \/ \E op \in {"compacted", "updated", "deleted"}, s \in Sessions :
       EventIgnored(op, s)
  \/ \E d \in Deltas : Tick(d)
  \/ \E h \in HookIds, s \in Sessions : ChatMessage(h, s)
SpecUnconfigured == InitUnconfigured /\ [][NextUnconfigured]_vars

\* the host delivers chat messages for sessions that it compacts and
\* deletes; the clock stands still
InitReused == /\ EvInit /\ ChatInit /\ PollIdle /\ timeoutMs = 0
              /\ pollIntervalMs = 0 /\ CfgIdle /\ LibIdle
NextReused ==
  \/ \E h \in HookIds, s \in Sessions : ChatMessage(h, s)
  \/ \E h \in HookIds, u \in SearchOutcomes :
       ChatFetched(h, NoOutcome, u, NoOutcome)
  \/ \E s \in Sessions : SessionCompacted(s)
  \/ \E s \in Sessions : SessionDeleted(s)
SpecReused == InitReused /\ [][NextReused]_vars

InitTool == /\ now = 0 /\ EvIdle /\ ChatInit /\ PollIdle /\ timeoutMs = 0
            /\ pollIntervalMs = 0 /\ PrivIdle /\ HashIdle /\ TagIdle
            /\ CtxIdle /\ ToolInit
NextTool == ToolNext
SpecTool == InitTool /\ [][NextTool]_vars

----------------------------------------------------------------------------
(***************************************************************************)
(* Properties of the compaction tracker (specification Spec)               *)
(***************************************************************************)

\* the latest step handled a finished summary message of session s
SummaryReady(s) == last.op = "updated" /\ last.sid = s

\* the ingestion times of s since its last session.deleted, before the
\* latest step
EmittedBefore(s) ==
  IF last.sid = s THEN SubSeq(emitted[s], 1, Len(emitted[s]) - last.emitted)
                  ELSE emitted[s]

\* C1: between two session.deleted of a session, any two ingestion requests
\* of the session are at least 30000 ms apart; a finished summary of a
\* pending compaction that comes less than 30000 ms after the session's
\* previous ingestion emits nothing, one that comes 30000 ms or more after
\* it emits exactly one request.
C1_Cooldown ==
  \A s \in Sessions :
    /\ \A i, j \in 1..Len(emitted[s]) :
         i < j => emitted[s][j] - emitted[s][i] >= 30000
    /\ (SummaryReady(s) /\ last.pre.inProgress /\ EmittedBefore(s) # << >>) =>
         LET t == EmittedBefore(s)[Len(EmittedBefore(s))]
         IN  /\ now - t < 30000 => last.emitted = 0
             /\ now - t >= 30000 => last.emitted = 1
             /\ now - t = 10000 => Len(emitted[s]) = Len(EmittedBefore(s))
             /\ now - t = 31000 => Len(emitted[s]) = Len(EmittedBefore(s)) + 1

\* an ingestion at t and the next one of the same session at t + 31000
C1_Witness ==
  \E s \in Sessions :
    /\ SummaryReady(s) /\ last.emitted = 1
    /\ Len(emitted[s]) = 2
    /\ emitted[s][2] - emitted[s][1] = 31000

\* C2: a session.compacted that creates the entry of a session followed by
\* the finished summary of that session emits exactly one ingestion
\* request, whatever the time is.
C2_FirstCompactionIngests ==
  \A s \in Sessions :
    (SummaryReady(s) /\ last.wasFresh) => last.emitted = 1

\* C3: session.deleted removes the entry of the session, and the
\* session.compacted / finished summary pair that follows it emits an
\* ingestion request, however recent the last ingestion before the
\* session.deleted was.
C3_FreshAfterSessionEnded ==
  \A s \in Sessions :
    /\ (last.op = "deleted" /\ last.sid = s /\ momo) => ~HasState(s)
    /\ (SummaryReady(s) /\ last.wasFresh /\ last.wasEnded) => last.emitted = 1

\* C6: when the ingestion call fails, the handler that awaited it completes
\* normally and nothing is sent again: the step only removes the failed call
\* from the outstanding ones.
C6_IngestFailureDiscarded ==
  (last.op = "settled" /\ last.backend = "failed") =>
    /\ last.handler = "returned"
    /\ last.emitted = 0
    /\ Len(inflight) = last.calls - 1

\* an ingestion call of a session has just failed
C6_Witness ==
  /\ last.op = "settled" /\ last.backend = "failed"
  /\ emitted[last.sid] # << >>

\* C7: the handler of a finished summary returns without waiting for the
\* ingestion call: no handler is suspended on a call the backend has not
\* answered.
C7_FireAndForget ==
  /\ \A i \in 1..Len(inflight) : ~inflight[i].awaited
  /\ (last.op = "updated" /\ last.emitted = 1) => last.handler = "returned"

----------------------------------------------------------------------------
(***************************************************************************)
(* Properties of the chat.message hook (specification SpecChat)            *)
(***************************************************************************)

\* the synthetic parts of session s over the parts lists of all invocations
SyntheticParts(s) ==
  {<<h, i>> \in HookIds \X (1..(MaxHookCalls + 1)) :
     /\ i <= Len(parts[h])
     /\ parts[h][i].synthetic
     /\ parts[h][i].sessionID = s}

\* C4: over all invocations of the hook, at most one synthetic part is
\* added for a session; an invocation for a session that was not injected
\* yet goes on to fetch whatever the other sessions did.
C4_InjectOnce ==
  /\ \A s \in Sessions : Cardinality(SyntheticParts(s)) <= 1
  /\ (lastChat.op = "called" /\ momo /\ ~lastChat.wasInjected) =>
       hooks[lastChat.h].pc = "fetching"

\* every invocation is over, two of them were for the same session, and
\* each session got its part
C4_Witness ==
  /\ \A h \in HookIds : hooks[h].pc = "done"
  /\ \A s \in Sessions : Cardinality(SyntheticParts(s)) = 1

\* the text the latest step injected (empty when it injected nothing)
InjectedText ==
  IF lastChat.added = 1 THEN parts[lastChat.h][1].text ELSE << >>

HasLine(text, line) == \E i \in 1..Len(text) : text[i] = line

\* C5: when the fetches have settled the hook completes normally; a section
\* is injected exactly when its own fetch succeeded with content, whatever
\* became of the other fetches.
C5_FetchFailuresAbsorbed ==
  lastChat.op = "fetched" =>
    /\ lastChat.completed = "ok"
    /\ hooks[lastChat.h].pc = "done"
    /\ HasLine(InjectedText, <<"## User Profile">>)
         <=> (lastChat.profile.ok /\ lastChat.profile.value[1].narrative # << >>)
    /\ HasLine(InjectedText, <<"## Known Preferences">>)
         <=> (lastChat.profile.ok
                /\ lastChat.profile.value[1].staticFacts # << >>)
    /\ HasLine(InjectedText, <<"## Recent User Context">>)
         <=> (lastChat.user.ok /\ lastChat.user.value # << >>)
    /\ HasLine(InjectedText, <<"## Project Knowledge">>)
         <=> (lastChat.project.ok /\ lastChat.project.value # << >>)
    /\ lastChat.added = 0 <=> InjectedText = << >>

\* the profile fetch and the project search fail, the user memories are
\* injected
C5_Witness ==
  /\ lastChat.op = "fetched"
  /\ ~lastChat.profile.ok /\ ~lastChat.project.ok
  /\ lastChat.user.ok /\ lastChat.user.value # << >>
  /\ lastChat.added = 1
  /\ HasLine(InjectedText, <<"- ", "m1">>)

----------------------------------------------------------------------------
(***************************************************************************)
(* Properties of waitForIngestion (specifications SpecPoll and FairPoll)   *)
(***************************************************************************)

\* C8: the wait returns 'completed' or 'failed' exactly when a status query
\* answered that status, and otherwise 'processing', and then only when
\* timeoutMs has elapsed; it never returns 'pending', and it ends with an
\* error only when a status query failed.
C8_ReturnedStatus ==
  /\ wPc = "returned" =>
       /\ wResult \in {"completed", "failed", "processing"}
       /\ wResult \in {"completed", "failed"} => wObserved = wResult
       /\ wResult = "processing" =>
            /\ now - wStart >= timeoutMs
            /\ wObserved \notin {"completed", "failed"}
  /\ wObserved \in {"completed", "failed"} =>
       wPc = "returned" /\ wResult = wObserved
  /\ wPc = "threw" => wObserved = "error"
  /\ wPc \notin {"returned"} => wResult = "none"

\* the job was seen pending and the wait timed out
C8_Witness ==
  /\ wPc = "returned" /\ wResult = "processing"
  /\ wObserved = "pending"
  /\ timeoutMs > 0

\* C9: when the clock advances and every status query is answered, the wait
\* ends; a status query is started only while less than timeoutMs has
\* elapsed.
C9_WaitTerminates ==
  /\ <>(wPc \in {"returned", "threw"})
  /\ [](wPc = "querying" => wQueryAt - wStart < timeoutMs)

\* the wait timed out after at least two status queries of a job that was
\* still processing
C9_Witness ==
  /\ wPc = "returned" /\ wResult = "processing"
  /\ wObserved = "processing"
  /\ wQueryAt > wStart

----------------------------------------------------------------------------
(***************************************************************************)
(* Properties of loadConfig (specification SpecCfg)                        *)
(***************************************************************************)

IsSet(x) == x.t = "str"

\* what a file contributes for a field: nothing unless it holds an object
Contribution(file, f) == IF file.kind = "object" THEN file.obj[f] ELSE Undef

\* the project-local file: the dotted one when there is one, else the plain
ProjectLocal(f) ==
  IF ~directory THEN Undef
  ELSE IF dotFile.kind # "missing" THEN Contribution(dotFile, f)
  ELSE Contribution(plainFile, f)

BuiltIn(f) == IF f = "baseUrl" THEN Str(DEFAULT_BASE_URL) ELSE Undef

RECURSIVE FirstSet(_)
FirstSet(candidates) ==
  IF candidates = << >> THEN Undef
  ELSE IF IsSet(candidates[1]) THEN candidates[1]
  ELSE FirstSet(Tail(candidates))

\* C10: every field of the configuration loadConfig returns is the first
\* value set among the environment, the project-local file, the global
\* file and the built-in default, each field on its own.
C10_PerFieldPrecedence ==
  config.status = "ok" =>
    \A f \in Fields :
      config.value[f] =
        FirstSet(<<env[f], ProjectLocal(f), Contribution(globalFile, f),
                   BuiltIn(f)>>)

\* one configuration takes a field from each source: the project file sets
\* apiKey but not baseUrl or containerTagUser
C10_Witness ==
  /\ config.status = "ok"
  /\ directory
  /\ config.value.containerTagProject = Str(SourceValue.env.containerTagProject)
  /\ config.value.apiKey = Str(SourceValue.dot.apiKey)
  /\ config.value.containerTagUser = Str(SourceValue.global.containerTagUser)
  /\ config.value.baseUrl = Str(DEFAULT_BASE_URL)

\* the file a call of loadConfig reads as the project-local one, if any
ProjectFileRead ==
  IF ~directory THEN File("missing", EmptyObject)
  ELSE IF existsSync(dotFile) THEN dotFile
  ELSE plainFile

\* C11: loadConfig returns a configuration whatever the global and the
\* project-local file hold (nothing, unreadable bytes, malformed text, or
\* the JSON value null), and a file that holds no object contributes no
\* field.
C11_NeverRaises ==
  config.status # "none" =>
    /\ config.status = "ok"
    /\ \A f \in Fields :
         /\ globalFile.kind # "object" /\ ~IsSet(env[f]) /\ ~IsSet(ProjectLocal(f))
              => config.value[f] = BuiltIn(f)
         /\ ProjectFileRead.kind # "object" /\ ~IsSet(env[f])
              => config.value[f] \in {Contribution(globalFile, f), BuiltIn(f)}

\* C12: every configuration loadConfig returns has a baseUrl that is a
\* string, and it is the built-in default when neither the environment nor
\* a file sets baseUrl.
C12_BaseUrlPresent ==
  config.status = "ok" =>
    /\ config.value.baseUrl.t = "str"
    /\ (/\ ~IsSet(env.baseUrl)
        /\ ~IsSet(ProjectLocal("baseUrl"))
        /\ ~IsSet(Contribution(globalFile, "baseUrl")))
         => config.value.baseUrl = Str(DEFAULT_BASE_URL)

\* a returned configuration took the default although the project file is
\* read and holds baseUrl: null
C12_Witness ==
  /\ config.status = "ok"
  /\ directory
  /\ dotFile.kind = "object" /\ dotFile.obj.baseUrl = Null
  /\ config.value.baseUrl = Str(DEFAULT_BASE_URL)

----------------------------------------------------------------------------
(***************************************************************************)
(* Properties of the privacy filter (specification SpecPriv)               *)
(***************************************************************************)

SetMin(S) == CHOOSE x \in S : \A y \in S : x <= y
SetMax(S) == CHOOSE x \in S : \A y \in S : x >= y

\* the indices at or after k where a span can start: an opening marker with
\* a closing marker somewhere behind it
SpanStarts(text, k) ==
  {i \in k..Len(text) :
     /\ MatchAt(text, OpenMarker, i)
     /\ \E c \in (i + Len(OpenMarker))..Len(text) : MatchAt(text, CloseMarker, c)}

\* the last index of the shortest span that starts at i
SpanEnd(text, i) ==
  SetMin({c \in (i + Len(OpenMarker))..Len(text) : MatchAt(text, CloseMarker, c)})
    + Len(CloseMarker) - 1

\* the indices covered by the non-overlapping spans taken from left to right
RECURSIVE InSpans(_, _)
InSpans(text, k) ==
  IF SpanStarts(text, k) = {} THEN {}
  ELSE LET i == SetMin(SpanStarts(text, k))
       IN  (i..SpanEnd(text, i)) \cup InSpans(text, SpanEnd(text, i) + 1)

\* the characters of text at the indices in keep, in order
RECURSIVE Restrict(_, _)
Restrict(text, keep) ==
  IF keep = {} THEN << >>
  ELSE LET k == SetMax(keep)
       IN  Append(Restrict(text, keep \ {k}), text[k])

\* text without its leading and trailing whitespace
Trimmed(text) ==
  LET solid == {k \in 1..Len(text) : text[k] \notin Whitespace}
  IN  IF solid = {} THEN << >>
      ELSE SubSeq(text, SetMin(solid), SetMax(solid))

\* C20: stripPrivateContent returns the text outside the non-overlapping
\* shortest spans, in order, without leading and trailing whitespace;
\* isFullyPrivate is true exactly when stripPrivateContent returns the
\* empty text; the empty text is stripped to the empty text.
C20_StripPrivate ==
  /\ privOut.op = "stripPrivateContent" =>
       /\ privOut.value =
            Trimmed(Restrict(privText, (1..Len(privText)) \ InSpans(privText, 1)))
       /\ privText = << >> => privOut.value = << >>
  /\ privOut.op = "isFullyPrivate" =>
       (privOut.value <=> stripPrivateContent(privText) = << >>)

\* two spans were removed and the letter between them was kept
C20_Witness ==
  /\ privOut.op = "stripPrivateContent"
  /\ privText = OpenMarker \o CloseMarker \o <<"x">> \o OpenMarker \o CloseMarker
  /\ privOut.value = <<"x">>

----------------------------------------------------------------------------
(***************************************************************************)
(* Properties of simpleHash (specification SpecHash)                       *)
(***************************************************************************)

\* the reference fold on unsigned 32-bit integers:
\* h0 = 5381, h_{i+1} = ((h_i * 33) XOR charCode_i) mod 2^32
RECURSIVE ReferenceFold(_)
ReferenceFold(s) ==
  IF s = << >> THEN [hi |-> 0, lo |-> 5381]
  ELSE LET h == ReferenceFold(SubSeq(s, 1, Len(s) - 1))
           low == h.lo * 33
           product == [hi |-> ((h.hi * 33) + (low \div Half)) % Half,
                       lo |-> low % Half]
       IN  [hi |-> product.hi, lo |-> BitXor(product.lo, charCode[s[Len(s)]])]

HexValue(d) == CHOOSE v \in 0..15 : HexDigits[v + 1] = d

\* the unsigned 32-bit integer a hexadecimal numeral of at most 8 digits
\* denotes
RECURSIVE ParseHex(_)
ParseHex(digits) ==
  IF digits = << >> THEN [hi |-> 0, lo |-> 0]
  ELSE LET u == ParseHex(SubSeq(digits, 1, Len(digits) - 1))
           low == (u.lo * 16) + HexValue(digits[Len(digits)])
       IN  [hi |-> ((u.hi * 16) + (low \div Half)) % Half, lo |-> low % Half]

\* a hexadecimal numeral without sign and without leading zeros
IsHexNumeral(digits) ==
  /\ Len(digits) \in 1..8
  /\ \A k \in 1..Len(digits) : \E v \in 0..15 : HexDigits[v + 1] = digits[k]
  /\ Len(digits) > 1 => digits[1] # "0"

Reverse(s) == [k \in 1..Len(s) |-> s[Len(s) + 1 - k]]

\* C19: simpleHash returns the hexadecimal numeral of the reference fold
\* h0 = 5381, h' = ((h * 33) XOR charCode) mod 2^32 read as an unsigned 32-bit
\* integer; every product h * 33 it forms is an exact integer; and a string
\* read backwards hashes to another value unless it reads the same.
C19_SimpleHashFold ==
  hashOut.done =>
    /\ IsHexNumeral(hashOut.result.hex)
    /\ ParseHex(hashOut.result.hex) = ReferenceFold(hashInput)
    /\ hashOut.result.exact
    /\ Reverse(hashInput) # hashInput
         => simpleHash(Reverse(hashInput)).hex # hashOut.result.hex

\* a string was hashed that is long enough for h to go below 0 on the way
\* and ends in the character with the highest code unit
C19_Witness ==
  /\ hashOut.done
  /\ hashOut.result.negative
  /\ Len(hashInput) > 1
  /\ hashInput[Len(hashInput)] = "U+FFFF"
  /\ Len(hashOut.result.hex) = 8

----------------------------------------------------------------------------
(***************************************************************************)
(* Properties of the container tags (specification SpecTag)                *)
(***************************************************************************)

\* an optional string is supplied when it is a string that is not empty
Supplied(opt) == opt # << >> /\ opt[1] # << >>

\* C18: for the user scope and the project scope independently, a supplied
\* override is the tag, character for character, and the tag of a scope
\* without a supplied override is the derived one.
C18_OverrideWins ==
  tagOut.done =>
    LET user == OverrideOf(tagArgs.overrides, "containerTagUser")
        project == OverrideOf(tagArgs.overrides, "containerTagProject")
    IN  /\ Supplied(user) => tagOut.tags.user = user[1]
        /\ ~Supplied(user) => tagOut.tags.user = userTag(tagArgs.username)
        /\ Supplied(project) => tagOut.tags.project = project[1]
        /\ ~Supplied(project)
             => tagOut.tags.project = projectTag(tagArgs.directory)

\* the user tag is the override while the project tag is derived from a
\* directory whose last component is slugified
C18_Witness ==
  /\ tagOut.done
  /\ Supplied(OverrideOf(tagArgs.overrides, "containerTagUser"))
  /\ ~Supplied(OverrideOf(tagArgs.overrides, "containerTagProject"))
  /\ tagOut.tags.user = <<"b", "o", "b">>
  /\ SubSeq(tagOut.tags.project, 1, 8) = <<"o", "c", "p", "-", "a", "-", "b", "-">>
  /\ Len(tagOut.tags.project) = 16

----------------------------------------------------------------------------
(***************************************************************************)
(* Properties of the tools (specification SpecTool)                        *)
(***************************************************************************)

\* the backend operations that store the content they are handed
StorageOps == {"memories.create", "documents.create"}

\* text holds an opening marker with a closing marker behind it
ContainsSpan(text) == SpanStarts(text, 1) # {}

\* C13: no content handed to a storage operation of the backend (the memory
\* creation of mode add, the document creation of momo_ingest) holds a
\* private span.
C13_NoPrivateStored ==
  \A k \in 1..Len(tool.result.calls) :
     tool.result.calls[k].op \in StorageOps
       => ~ContainsSpan(tool.result.calls[k].content)

\* the key loadConfig resolves: the first value that is not nullish among
\* the environment, the project-local file and the global file
ResolvedApiKey ==
  FirstSet(<<env.apiKey, ProjectLocal("apiKey"),
             Contribution(globalFile, "apiKey")>>)

KeyAbsentOrEmpty == ~IsSet(ResolvedApiKey) \/ ResolvedApiKey.v = ""

GatedModes == {"add", "search", "list", "forget", "profile"}

\* C15: a call of mode add, search, list, forget or profile throws the
\* 'not configured' error exactly when the resolved apiKey is absent or
\* empty, and then no backend call was made; mode help returns the help
\* text, configured or not.
C15_OperationGate ==
  tool.name = "momo" =>
    /\ tool.args.mode \in GatedModes =>
         /\ (tool.result.outcome = "threw" /\ tool.result.message = NotConfigured)
              <=> KeyAbsentOrEmpty
         /\ KeyAbsentOrEmpty => tool.result.calls = << >>
    /\ tool.args.mode = "help" =>
         /\ tool.result.outcome = "returned"
         /\ tool.result.message = HELP_TEXT
         /\ tool.result.calls = << >>

\* a search with a query was refused because the only key, the one of the
\* project file, is empty although the global file holds one
C15_Witness ==
  /\ tool.name = "momo" /\ tool.args.mode = "search"
  /\ Supplied(tool.args.query)
  /\ env.apiKey = Undef /\ directory /\ dotFile.kind = "object"
  /\ globalFile.kind = "object"
  /\ tool.result = Threw(NotConfigured, << >>)

\* the latest call is a momo call of mode m on the configured plugin
ConfiguredCall(m) == tool.name = "momo" /\ tool.args.mode = m /\ momo

\* C17: on a configured plugin, add without content, search without query
\* and forget without memoryId return their message, throw nothing and make
\* no backend call.
C17_MissingArgument ==
  /\ ConfiguredCall("add") /\ ~Supplied(tool.args.content)
       => tool.result = Returned(ContentRequired, << >>)
  /\ ConfiguredCall("search") /\ ~Supplied(tool.args.query)
       => tool.result = Returned(QueryRequired, << >>)
  /\ ConfiguredCall("forget") /\ ~Supplied(tool.args.memoryId)
       => tool.result = Returned(MemoryIdRequired, << >>)

\* forget was called with the empty string as memoryId on a configured
\* plugin
C17_Witness ==
  /\ ConfiguredCall("forget")
  /\ tool.args.memoryId = <<<< >>>>
  /\ tool.result.outcome = "returned"

\* the content of the latest add call strips to the empty text
EntirelyPrivateAdd ==
  /\ tool.name = "momo" /\ tool.args.mode = "add"
  /\ tool.args.content # << >>
  /\ stripPrivateContent(tool.args.content[1]) = << >>

\* C14 as stated: an add call whose content strips to the empty text makes
\* no memory-creation call and returns the 'entirely private' message.
C14_EntirelyPrivateRefused ==
  EntirelyPrivateAdd => tool.result = Returned(EntirelyPrivate, << >>)

\* C14 amended: on a configured plugin, an add call whose content is not
\* empty and strips to the empty text makes no memory-creation call and
\* returns the 'entirely private' message.
C14_EntirelyPrivateRefusedConfigured ==
  EntirelyPrivateAdd /\ momo /\ tool.args.content[1] # << >>
    => tool.result = Returned(EntirelyPrivate, << >>)

\* a span followed by a line break was refused on a configured plugin
C14_Witness ==
  /\ EntirelyPrivateAdd /\ momo
  /\ tool.args.content[1] = OpenMarker \o <<"x">> \o CloseMarker \o <<"\n">>
  /\ tool.result = Returned(EntirelyPrivate, << >>)

----------------------------------------------------------------------------
(***************************************************************************)
(* Properties of the hooks without a client (specification                 *)
(* SpecUnconfigured)                                                       *)
(***************************************************************************)

\* the parts the host handed to invocation h
HostParts(h) == [i \in 1..(h - 1) |-> HostPart(hooks[h].sid, h, i)]

\* C16: while the plugin has no client, every invocation of the chat hook
\* has returned with the parts the host gave it and fetches nothing, and the
\* event hook has returned from every event with no ingestion call made and
\* no session tracked.
C16_UnconfiguredIdle ==
  ~momo =>
    /\ \A h \in HookIds :
         /\ hooks[h].pc # "fetching"
         /\ hooks[h].pc = "done" => parts[h] = HostParts(h)
    /\ injectedSessions = {}
    /\ lastChat.completed = "ok"
    /\ DOMAIN sessionStates = {}
    /\ inflight = << >>
    /\ \A s \in Sessions : emitted[s] = << >>
    /\ last.handler = "returned"

\* past the cooldown, a summary message was the latest event, and the chat
\* hook has been called for both sessions, once with parts of the host
C16_Witness ==
  /\ ~momo
  /\ now >= COMPACTION_COOLDOWN_MS
  /\ last.op = "updated"
  /\ \A s \in Sessions : \E h \in HookIds : hooks[h] = [pc |-> "done", sid |-> s]
  /\ \E h \in HookIds : hooks[h].pc = "done" /\ Len(parts[h]) > 0

----------------------------------------------------------------------------
(***************************************************************************)
(* Properties of formatContextForPrompt (specification SpecCtx)            *)
(***************************************************************************)

BeginMarker == <<"[MOMO MEMORY - Context from previous sessions]">>
EndMarker == <<"[END MOMO MEMORY]">>

\* the headings of the four sections, in their fixed order
Headings == <<"## User Profile", "## Known Preferences",
              "## Recent User Context", "## Project Knowledge">>

\* the lines of text that are the line
LinesAt(text, line) == {k \in 1..Len(text) : text[k] = line}

\* what each section has to show: the summary, the traits, the memories
SummaryOf(profile) ==
  IF profile # << >> /\ profile[1].summary # << >> /\ profile[1].summary[1] # ""
    THEN <<profile[1].summary[1]>> ELSE << >>

TraitsOf(profile) ==
  IF profile # << >> /\ profile[1].traits # << >> THEN profile[1].traits[1]
  ELSE << >>

SectionItems ==
  <<SummaryOf(ctxArgs.profile), TraitsOf(ctxArgs.profile),
    ctxArgs.userMemories, ctxArgs.projectMemories>>

\* line k of the block shows item x of section n
Shows(line, n, x) ==
  CASE n = 1 -> line = <<x>>
    [] n = 2 -> line = <<"- ", x>>
    [] OTHER -> /\ Len(line) >= 2
                /\ line[1] = "- "
                /\ line[2] = (IF x.content = << >> THEN "undefined"
                              ELSE x.content[1])

\* C21: formatContextForPrompt returns the empty text exactly when there is
\* no summary, no trait and no memory; otherwise one block between the begin
\* marker and the end marker, in which the heading of a section occurs once
\* if the section has items and never otherwise, the headings follow the
\* fixed order, and the items of a section follow its heading in input
\* order.
C21_ContextBlock ==
  ctxOut.done =>
    LET out == ctxOut.value
        has == [n \in 1..4 |-> SectionItems[n] # << >>]
        at == [n \in 1..4 |-> LinesAt(out, <<Headings[n]>>)]
    IN  /\ out = << >> <=> \A n \in 1..4 : ~has[n]
        /\ out # << >> =>
             /\ LinesAt(out, BeginMarker) = {1}
             /\ LinesAt(out, EndMarker) = {Len(out)}
             /\ \A n \in 1..4 :
                  /\ Cardinality(at[n]) = (IF has[n] THEN 1 ELSE 0)
                  /\ \A k \in at[n] :
                       \A i \in 1..Len(SectionItems[n]) :
                          /\ k + i < Len(out)
                          /\ Shows(out[k + i], n, SectionItems[n][i])
             /\ \A n \in 1..4, m \in 1..4 :
                  n < m => \A k \in at[n], j \in at[m] :
                             k + Len(SectionItems[n]) < j

\* a block with all four sections, two traits and two memories in each list
C21_Witness ==
  /\ ctxOut.done
  /\ \A n \in 1..4 : LinesAt(ctxOut.value, <<Headings[n]>>) # {}
  /\ Len(ctxArgs.userMemories) = 2
  /\ Len(ctxArgs.projectMemories) = 2
  /\ ctxArgs.userMemories[1] # ctxArgs.userMemories[2]


----------------------------------------------------------------------------
(***************************************************************************)
(* The operations of the compaction tracker one by one (specification      *)
(* Spec).  last.before is the session-state map before the latest step.    *)
(***************************************************************************)

\* the latest step is the handler of the given event of session s, run
\* with a client
Handled(op, s) == momo /\ last.op = op /\ last.sid = s

Tracked(states, s) == s \in DOMAIN states

\* C22: session.compacted of session s leaves s with an entry whose
\* inProgress is true; the entry it creates has lastCompaction 0, the one
\* it finds keeps its lastCompaction; no ingestion request is emitted.
C22_CompactionStarted ==
  \A s \in Sessions :
    Handled("compacted", s) =>
      /\ Tracked(sessionStates, s)
      /\ sessionStates[s].inProgress
      /\ sessionStates[s].lastCompaction =
           (IF Tracked(last.before, s) THEN last.before[s].lastCompaction
                                       ELSE 0)
      /\ last.emitted = 0
      /\ Len(inflight) = last.calls
      /\ emitted[s] = EmittedBefore(s)

\* session.compacted of a session that has ingested before and is not
\* pending
C22_Witness ==
  \E s \in Sessions :
    /\ Handled("compacted", s)
    /\ Tracked(last.before, s)
    /\ last.before[s].lastCompaction > 0
    /\ ~last.before[s].inProgress


\* the entry of s before the latest step was pending (inProgress true)
WasPending(s) == Tracked(last.before, s) /\ last.before[s].inProgress

\* C23: a finished summary of a session that is not pending, a session
\* without an entry included, emits no ingestion request and leaves the
\* session-state map exactly as it was: no entry is created or changed.
C23_SummaryNotPending ==
  \A s \in Sessions :
    (Handled("updated", s) /\ ~WasPending(s)) =>
      /\ last.emitted = 0
      /\ Len(inflight) = last.calls
      /\ sessionStates = last.before


\* how long before the latest step the entry of s was last stamped
SinceLast(s) == now - last.before[s].lastCompaction

\* C24: a finished summary of a pending session that comes less than
\* 30000 ms after the session's lastCompaction clears inProgress, leaves
\* lastCompaction as it was and emits no ingestion request.
C24_RateLimited ==
  \A s \in Sessions :
    (Handled("updated", s) /\ WasPending(s) /\ SinceLast(s) < 30000) =>
      /\ Tracked(sessionStates, s)
      /\ ~sessionStates[s].inProgress
      /\ sessionStates[s].lastCompaction = last.before[s].lastCompaction
      /\ last.emitted = 0
      /\ Len(inflight) = last.calls
      /\ emitted[s] = EmittedBefore(s)

\* a rate-limited summary 10000 ms after an ingestion of the session
C24_Witness ==
  \E s \in Sessions :
    /\ Handled("updated", s) /\ WasPending(s)
    /\ last.before[s].lastCompaction > 0
    /\ SinceLast(s) = 10000

\* C25: a finished summary of a pending session that comes 30000 ms or more
\* after the session's lastCompaction clears inProgress, sets lastCompaction
\* to the current time and emits exactly one ingestion request, with the
\* session's id, the project tag (not the user tag) and memory type
\* "episode".
C25_Ingests ==
  \A s \in Sessions :
    (Handled("updated", s) /\ WasPending(s) /\ SinceLast(s) >= 30000) =>
      /\ Tracked(sessionStates, s)
      /\ ~sessionStates[s].inProgress
      /\ sessionStates[s].lastCompaction = now
      /\ Len(inflight) = last.calls + 1
      /\ emitted[s] = Append(EmittedBefore(s), now)
      /\ LET request == inflight[Len(inflight)]
         IN  /\ request.sessionId = s
             /\ request.containerTag = PluginTags.project
             /\ request.containerTag # PluginTags.user
             /\ request.memoryType = "episode"

\* the second ingestion of a session, 31000 ms after its first
C25_Witness ==
  \E s \in Sessions :
    /\ Handled("updated", s) /\ WasPending(s)
    /\ last.before[s].lastCompaction > 0
    /\ SinceLast(s) = 31000
    /\ Len(inflight) = last.calls + 1


\* C26: for every session identifier, lastCompaction never decreases over
\* the events: the entry of a session never holds less than an entry of
\* the session has held before.
C26_Monotone ==
  \A s \in Sessions :
    Tracked(sessionStates, s) => sessionStates[s].lastCompaction >= peak[s]

\* the entry of s was there before the latest step and is there after it
Kept(s) == Tracked(last.before, s) /\ Tracked(sessionStates, s)

\* C26 amended: between the creation of the entry of a session and the
\* session.deleted that removes it, lastCompaction never decreases: no step
\* that finds the entry and leaves it lowers the value, and only
\* session.deleted of the session removes the entry.
C26_MonotoneWhileTracked ==
  \A s \in Sessions :
    /\ Kept(s) =>
         sessionStates[s].lastCompaction >= last.before[s].lastCompaction
    /\ (Tracked(last.before, s) /\ ~Tracked(sessionStates, s)) =>
         Handled("deleted", s)
    /\ Tracked(sessionStates, s) => sessionStates[s].lastCompaction <= now

\* a step raised the lastCompaction of an entry that had been stamped
\* before
C26_Witness ==
  \E s \in Sessions :
    /\ Kept(s)
    /\ last.before[s].lastCompaction > 0
    /\ sessionStates[s].lastCompaction > last.before[s].lastCompaction


\* the entry of t, or the lack of one, is the same before and after the
\* latest step
SameEntry(t) ==
  /\ Tracked(last.before, t) <=> Tracked(sessionStates, t)
  /\ Tracked(sessionStates, t) => sessionStates[t] = last.before[t]

\* C27: an event of session s leaves the entry of every other session as it
\* was, and whether a finished summary of s emits an ingestion request is
\* decided by the entry of s alone, which only the events of s have
\* written: it emits exactly when s was pending and its own lastCompaction
\* is 30000 ms or more in the past, whatever the other entries are.
C27_SessionIsolation ==
  \A s \in Sessions :
    /\ (last.op \in {"compacted", "updated", "other", "deleted"}
          /\ last.sid = s) =>
         \A t \in Sessions \ {s} : SameEntry(t)
    /\ Handled("updated", s) =>
         (Len(inflight) = last.calls + 1 <=>
            (WasPending(s) /\ SinceLast(s) >= 30000))
    /\ Handled("updated", s) =>
         Len(inflight) \in {last.calls, last.calls + 1}

\* a finished summary of s emits while another session is pending and
\* inside its own cooldown
C27_Witness ==
  \E s \in Sessions, t \in Sessions :
    /\ s # t
    /\ Handled("updated", s)
    /\ Len(inflight) = last.calls + 1
    /\ Tracked(sessionStates, t)
    /\ sessionStates[t].inProgress
    /\ sessionStates[t].lastCompaction > 0
    /\ now - sessionStates[t].lastCompaction < 30000


\* the handler of a finished summary of s has just emitted a request and
\* is suspended on the call
FirstSuspended(s) ==
  /\ Handled("updated", s)
  /\ Len(inflight) = last.calls + 1
  /\ inflight[Len(inflight)].sessionId = s
  /\ inflight[Len(inflight)].awaited

----------------------------------------------------------------------------
(***************************************************************************)
(* The parts list of the chat.message hook (specification SpecChat)        *)
(***************************************************************************)

\* the context text of the latest step, from what the three fetches gave
\* once their failures are caught
LatestContext ==
  ContextText(CatchNull(lastChat.profile).value,
              ResultsOrEmpty(lastChat.user).value,
              ResultsOrEmpty(lastChat.project).value)

\* the latest step ended invocation h without injecting: the session was
\* injected already or there is no client, or the fetches, failed ones
\* included, gave an empty context
EndedWithoutInjecting(h) ==
  /\ lastChat.h = h
  /\ hooks[h].pc = "done"
  /\ \/ lastChat.op = "called"
     \/ lastChat.op = "fetched" /\ LatestContext = << >>

\* C29: when the hook injects, the synthetic part is at index 0 of the
\* parts list and the parts the host gave follow it with their content and
\* in their order; when it does not inject (session injected already, no
\* client, empty context or failed fetch) the parts list is the one the host
\* gave.
C29_PartsOrder ==
  \A h \in HookIds :
    /\ hooks[h].pc = "fetching" => parts[h] = HostParts(h)
    /\ hooks[h].pc = "done" =>
         \/ parts[h] = HostParts(h)
         \/ /\ parts[h][1].synthetic
            /\ Tail(parts[h]) = HostParts(h)
    /\ EndedWithoutInjecting(h) => parts[h] = HostParts(h)
    /\ (lastChat.h = h /\ lastChat.op = "fetched"
          /\ LatestContext # << >>) =>
         /\ Len(parts[h]) = h
         /\ parts[h][1].synthetic
         /\ parts[h][1].text = LatestContext
         /\ \A i \in 1..(h - 1) : parts[h][i + 1] = HostParts(h)[i]

\* the hook has injected into a list of two parts of the host
C29_Witness ==
  \E h \in HookIds :
    /\ lastChat.h = h /\ lastChat.op = "fetched"
    /\ Len(parts[h]) = 3
    /\ parts[h][1].synthetic
    /\ ~parts[h][2].synthetic


----------------------------------------------------------------------------
(***************************************************************************)
(* The project-local file (specification SpecCfg).  The sources use        *)
(* values of their own, so a value of the configuration names the file it  *)
(* came from.                                                              *)
(***************************************************************************)

\* field f of the returned configuration is the value the source src uses
\* for it
ComesFrom(src, f) ==
  config.status = "ok" /\ config.value[f] = Str(SourceValue[src][f])

\* C30: with a directory given, the project-local configuration is that of
\* .momo.jsonc when the file exists and that of momo.jsonc only when
\* .momo.jsonc does not exist; when .momo.jsonc exists, malformed or not,
\* momo.jsonc contributes nothing; with no directory given neither file
\* contributes.
C30_ProjectFileChoice ==
  config.status # "none" =>
    \A f \in Fields :
      /\ ComesFrom("plain", f) => directory /\ dotFile.kind = "missing"
      /\ ComesFrom("dot", f) => directory /\ dotFile.kind = "object"
      /\ (directory /\ dotFile.kind = "missing" /\ plainFile.kind = "object"
            /\ ~IsSet(env[f]) /\ IsSet(plainFile.obj[f])) =>
           ComesFrom("plain", f)
      /\ (directory /\ dotFile.kind = "object" /\ config.status = "ok"
            /\ ~IsSet(env[f]) /\ IsSet(dotFile.obj[f])) =>
           ComesFrom("dot", f)

\* loadConfig was called with a directory whose .momo.jsonc is malformed
\* and whose momo.jsonc sets every field, and nothing else sets a field
C30_Witness ==
  /\ config.status = "ok"
  /\ directory
  /\ dotFile.kind = "malformed"
  /\ plainFile = File("object", FullObject("plain"))
  /\ config.value = [EmptyObject EXCEPT !.baseUrl = Str(DEFAULT_BASE_URL)]


----------------------------------------------------------------------------
(***************************************************************************)
(* Failed ingestion calls and the cooldown (specification SpecFailed).     *)
(* hist.failedAt is the time at which the latest failed call of each       *)
(* session was emitted, last.hist its value before the latest step.        *)
(***************************************************************************)

\* the latest step is the failure of an ingestion call of s
CallFailed(s) ==
  momo /\ last.op = "settled" /\ last.backend = "failed" /\ last.sid = s

\* C31: a failed ingestion call takes nothing back: the step leaves the
\* session-state map as it was, the entry keeps a lastCompaction at or
\* after the time of the failed attempt, and a finished summary of the
\* session that comes less than 30000 ms after the failed attempt emits no
\* ingestion request.
C31_FailureConsumesCooldown ==
  \A s \in Sessions :
    /\ CallFailed(s) => sessionStates = last.before
    /\ (CallFailed(s) /\ hist.failedAt[s] # last.hist.failedAt[s]) =>
         /\ Tracked(sessionStates, s)
         /\ sessionStates[s].lastCompaction >= hist.failedAt[s]
    /\ (Handled("updated", s) /\ last.hist.failedAt[s] >= 0
          /\ now - last.hist.failedAt[s] < 30000) =>
         /\ Len(inflight) = last.calls
         /\ emitted[s] = EmittedBefore(s)

\* a session.compacted / finished summary pair 10000 ms after an attempt
\* whose call failed
C31_Witness ==
  \E s \in Sessions :
    /\ Handled("updated", s)
    /\ WasPending(s)
    /\ last.hist.failedAt[s] > 0
    /\ now - last.hist.failedAt[s] = 10000
    /\ last.before[s].lastCompaction = last.hist.failedAt[s]


----------------------------------------------------------------------------
(***************************************************************************)
(* Rate-limited summaries (specification SpecDropped).  hist.dropped holds *)
(* for a session from the rate-limited summary of the session to its next  *)
(* session.compacted.                                                      *)
(***************************************************************************)

\* the latest step emitted an ingestion request for s
Emitted(s) == last.sid = s /\ Len(inflight) = last.calls + 1

\* C32: a rate-limited summary is dropped: from the summary that the
\* cooldown suppressed until the next session.compacted of the session, no
\* step emits an ingestion request for the session, however much time has
\* passed.
C32_DroppedNotDeferred ==
  \A s \in Sessions :
    /\ (Handled("updated", s) /\ WasPending(s) /\ SinceLast(s) < 30000) =>
         hist.dropped[s]
    /\ Emitted(s) => ~last.hist.dropped[s]
    /\ (last.hist.dropped[s] /\ ~Handled("compacted", s)) =>
         /\ hist.dropped[s]
         /\ emitted[s] = EmittedBefore(s)

\* a finished summary of s 30000 ms or more after the lastCompaction of
\* its entry, with the latest compaction of s rate-limited and no
\* session.compacted since
C32_Witness ==
  \E s \in Sessions :
    /\ Handled("updated", s)
    /\ last.hist.dropped[s]
    /\ Tracked(last.before, s)
    /\ last.before[s].lastCompaction > 0
    /\ SinceLast(s) >= 30000


----------------------------------------------------------------------------
(***************************************************************************)
(* Events counted against ingestion requests (specification SpecCounted).  *)
(* hist.owed[s] is the number of session.compacted events of s less the    *)
(* number of its ingestion requests, counted up to MaxOwed; hist.since[s]  *)
(* is the number of requests of s since its latest session.compacted.      *)
(***************************************************************************)

\* the number of requests the latest step emitted
EmittedNow == Len(inflight) - last.calls

\* C33: for every session the ingestion requests emitted so far are no more
\* than its session.compacted events and no more than its finished
\* summaries: there are never more requests than session.compacted events,
\* and only the handler of a finished summary emits, one request at most;
\* between two session.compacted events of a session at most one request is
\* emitted, however many session.compacted events came before it.
C33_EmittedAtMostEvents ==
  \A s \in Sessions :
    /\ hist.owed[s] >= 0
    /\ (last.op = "updated" /\ last.sid = s) => EmittedNow \in {0, 1}
    /\ last.op \in {"compacted", "deleted", "other", "tick"} => EmittedNow = 0
    /\ last.op = "settled" => EmittedNow = 0 - 1
    /\ Len(emitted[s]) <= Len(EmittedBefore(s)) + 1
    /\ hist.since[s] <= 1

\* two session.compacted events of s, one request, and a second finished
\* summary past the cooldown that emits nothing
C33_Witness ==
  \E s \in Sessions :
    /\ Handled("updated", s)
    /\ last.hist.owed[s] >= 1
    /\ last.hist.since[s] = 1
    /\ Tracked(last.before, s)
    /\ SinceLast(s) >= 30000
    /\ EmittedNow = 0


----------------------------------------------------------------------------
(***************************************************************************)
(* One attempt per session (specification SpecChat)                        *)
(***************************************************************************)

Fetching(s) == \E h \in HookIds : hooks[h].pc = "fetching" /\ hooks[h].sid = s

\* on a configured plugin the first hook call of s fetches, so once an
\* invocation for s is over and none is fetching, the attempt of s is over;
\* it added nothing when no parts list holds a synthetic part of s
AttemptAddedNothing(s) ==
  /\ momo
  /\ \E h \in HookIds : hooks[h].pc = "done" /\ hooks[h].sid = s
  /\ ~Fetching(s)
  /\ SyntheticParts(s) = {}

\* C34: on a configured plugin a session is in injectedSessions while its
\* fetches are under way, a hook call starts fetching only for a session
\* that is not in injectedSessions, and once the attempt of a session is over
\* and added nothing, no later step fetches or adds a part for that session.
C34_OneAttempt ==
  [][/\ \A h \in HookIds :
          /\ (momo /\ hooks[h].pc = "fetching") =>
               hooks[h].sid \in injectedSessions
          /\ (hooks[h].pc = "idle" /\ hooks'[h].pc = "fetching") =>
               /\ hooks'[h].sid \notin injectedSessions
               /\ hooks'[h].sid \in injectedSessions'
          /\ (momo /\ hooks[h].pc = "idle" /\ hooks'[h].pc = "done") =>
               hooks'[h].sid \in injectedSessions
     /\ \A s \in Sessions :
          AttemptAddedNothing(s) =>
            /\ AttemptAddedNothing(s)'
            /\ s \in injectedSessions'
    ]_vars

\* the attempt of s added nothing and a later hook call for s has returned
\* without fetching
C34_Witness ==
  \E s \in Sessions :
    /\ AttemptAddedNothing(s)
    /\ lastChat.op = "called" /\ lastChat.sid = s /\ lastChat.wasInjected
    /\ Cardinality({h \in HookIds : hooks[h].pc = "done"
                                      /\ hooks[h].sid = s}) >= 2


----------------------------------------------------------------------------
(***************************************************************************)
(* Session ids used again after session.deleted (specification SpecReused) *)
(***************************************************************************)

\* the step is a hook call for session s
CalledFor(h, s) ==
  hooks[h].pc = "idle" /\ hooks'[h].pc # "idle" /\ hooks'[h].sid = s

\* C35: no step takes a session out of injectedSessions; session.deleted
\* of s removes the compaction entry of s and leaves injectedSessions as it
\* is; and a hook call for a session that is in injectedSessions and was
\* deleted returns without fetching, its parts list the one the host gave,
\* and adds no synthetic part.
C35_InjectedOnlyGrows ==
  [][/\ injectedSessions \subseteq injectedSessions'
     /\ \A s \in Sessions :
          /\ (HasState(s) /\ s \notin DOMAIN sessionStates') =>
               /\ injectedSessions' = injectedSessions
               /\ last'.op = "deleted" /\ last'.sid = s
          /\ (last'.op = "deleted" /\ last'.sid = s /\ last' # last) =>
               /\ injectedSessions' = injectedSessions
               /\ momo => s \notin DOMAIN sessionStates'
          /\ \A h \in HookIds :
               (CalledFor(h, s) /\ s \in ended /\ s \in injectedSessions) =>
                 /\ hooks'[h].pc = "done"
                 /\ parts'[h] = [i \in 1..(h - 1) |-> HostPart(s, h, i)]
                 /\ SyntheticParts(s)' = SyntheticParts(s)
    ]_vars

\* session s was injected, then deleted with its compaction entry, and the
\* latest hook call, for s again, has returned without a synthetic part
C35_Witness ==
  \E s \in Sessions :
    /\ s \in ended /\ s \in injectedSessions /\ ~HasState(s)
    /\ lastChat.op = "called" /\ lastChat.sid = s /\ lastChat.wasInjected
    /\ hooks[lastChat.h].pc = "done"
    /\ Cardinality(SyntheticParts(s)) = 1
    /\ \A i \in 1..Len(parts[lastChat.h]) : ~parts[lastChat.h][i].synthetic
    /\ last.op = "deleted" /\ last.sid = s /\ last.before # sessionStates


----------------------------------------------------------------------------
(***************************************************************************)
(* waitForIngestion without a time budget (specification SpecPoll)         *)
(***************************************************************************)

\* C36: waitForIngestion called with timeoutMs <= 0 has returned
\* 'processing' as soon as it is called: it makes no status query, sets no
\* timer and never sees what the backend would answer.
C36_NoBudgetNoQuery ==
  (timeoutMs <= 0 /\ wPc # "idle") =>
    /\ wPc = "returned"
    /\ wResult = "processing"
    /\ wQueryAt = 0 - 1
    /\ wObserved = "none"
    /\ wakeAt = 0

\* the wait was called with timeoutMs = 0 and has returned; time has
\* passed since
C36_Witness ==
  /\ timeoutMs = 0
  /\ wPc = "returned"
  /\ wResult = "processing"
  /\ now > wStart


----------------------------------------------------------------------------
(***************************************************************************)
(* Empty overrides (specification SpecTag)                                 *)
(***************************************************************************)

EmptyString(opt) == opt = << << >> >>

\* C37: an override that is the empty string gives the derived tag of its
\* scope, as an absent override does; no tag is the empty string; and the
\* overrides the configure command writes for a file without container tags
\* give the derived tags.
C37_EmptyOverrideIsAbsent ==
  tagOut.done =>
    LET user == OverrideOf(tagArgs.overrides, "containerTagUser")
        project == OverrideOf(tagArgs.overrides, "containerTagProject")
        derived == getTags(tagArgs.directory, tagArgs.username)
    IN  /\ EmptyString(user) => tagOut.tags.user = derived.user
        /\ EmptyString(project) => tagOut.tags.project = derived.project
        /\ tagOut.tags.user # << >>
        /\ tagOut.tags.project # << >>
        /\ tagArgs.overrides = WrittenOverrides(<< >>, << >>) =>
             tagOut.tags = derived
        /\ \A u \in OverrideValues(<<"b", "o", "b">>),
              p \in OverrideValues(<<"A", " ", "b">>) :
             tagArgs.overrides = WrittenOverrides(u, p) =>
               /\ tagOut.tags.user # << >>
               /\ tagOut.tags.project # << >>

\* the tags were computed from the two empty container tags the configure
\* command writes
C37_Witness ==
  /\ tagOut.done
  /\ tagArgs.overrides = WrittenOverrides(<< >>, << >>)
  /\ EmptyString(OverrideOf(tagArgs.overrides, "containerTagUser"))
  /\ EmptyString(OverrideOf(tagArgs.overrides, "containerTagProject"))
  /\ Len(tagOut.tags.user) > 0
  /\ Len(tagOut.tags.project) > 0


----------------------------------------------------------------------------
(***************************************************************************)
(* stripPrivateContent applied twice (specification SpecPriv)              *)
(***************************************************************************)

\* C38: stripping what stripPrivateContent returned gives the same text
\* again, and what it returned holds no private span.
C38_Idempotent ==
  privOut.op = "stripPrivateContent" =>
    /\ stripPrivateContent(privOut.value) = privOut.value
    /\ ~ContainsSpan(privOut.value)


----------------------------------------------------------------------------
(***************************************************************************)
(* The configuration gate and argument validation (specification SpecTool) *)
(***************************************************************************)

\* the latest call is a momo call of mode m on the plugin without a client
UnconfiguredCall(m) == tool.name = "momo" /\ tool.args.mode = m /\ ~momo

\* C39: on an unconfigured plugin, add without content, search without
\* query and forget without memoryId throw the 'not configured' error; they
\* do not return the validation message and make no backend call.
C39_GateBeforeValidation ==
  /\ UnconfiguredCall("add") /\ ~Supplied(tool.args.content)
       => /\ tool.result = Threw(NotConfigured, << >>)
          /\ tool.result # Returned(ContentRequired, << >>)
  /\ UnconfiguredCall("search") /\ ~Supplied(tool.args.query)
       => /\ tool.result = Threw(NotConfigured, << >>)
          /\ tool.result # Returned(QueryRequired, << >>)
  /\ UnconfiguredCall("forget") /\ ~Supplied(tool.args.memoryId)
       => /\ tool.result = Threw(NotConfigured, << >>)
          /\ tool.result # Returned(MemoryIdRequired, << >>)

\* forget was called without a memoryId on a plugin without a client and
\* threw
C39_Witness ==
  /\ UnconfiguredCall("forget")
  /\ tool.args.memoryId = << >>
  /\ tool.result.outcome = "threw"
  /\ tool.result.message = NotConfigured

====
